---------------------------- MODULE Spec2Model ----------------------------
(***************************************************************************)
(* Model of src/libsystemd/sd-bus/bus-creds.c: the credential set          *)
(* (sd_bus_creds), its reference counting, its getters, the augmentation   *)
(* engine bus_creds_add_more() and bus_creds_extend_by_pid().              *)
(*                                                                         *)
(* Pointers are indices into a heap of buffers (0 is NULL); every buffer   *)
(* holds a sequence of numbers (a string is a one-element sequence).       *)
(* Credential objects live in the sequence objs.  Object 1 is there from   *)
(* the start: either the View embedded in a received bus message           *)
(* (allocated = FALSE) or an Owned set that its creator filled in          *)
(* directly after bus_creds_new(); the others are created by the calls.    *)
(***************************************************************************)
EXTENDS Integers, Sequences, FiniteSets, TLC

VARIABLES pool, objs, heap, msg, held, calls, last, thr

vars == <<pool, objs, heap, msg, held, calls, last, thr>>

(***************************************************************************)
(* Bounds of the model.                                                    *)
(***************************************************************************)
MaxObjs == 2      \* credential objects per behaviour
MaxCalls == 1     \* calls that query the OS, per behaviour
MaxBufs == 8      \* heap buffers that can be live at once
MaxVal == 2       \* data values (ids, strings) are 1..MaxVal
MaxRef == 1       \* extra references the caller takes on one handle
MaxOom == 2       \* the k-th allocation of a call may fail, k in 1..MaxOom
MaxThreads == 2   \* threads that share one owned set
MaxOps == 3       \* acquires and releases one thread makes
MaxHex == 4       \* characters of a capability text after its leading blank
MaxDecodes == 2   \* capability lines decoded into one set

(***************************************************************************)
(* errno values used by the code.                                          *)
(***************************************************************************)
EPERM == 1
ENOENT == 2
ESRCH == 3
EIO == 5
ENXIO == 6
ENOMEM == 12
EACCES == 13
EINVAL == 22
ENODATA == 61
ENOTSUP == 95

\* the outcome of a failed assert(): the process aborts
Aborted == 0 - 1000

USEC_PER_SEC == 1000000
CLK_TCK == 100

CAP_OFFSET_INHERITABLE == 0
CAP_OFFSET_PERMITTED == 1
CAP_OFFSET_EFFECTIVE == 2
CAP_OFFSET_BOUNDING == 3

(***************************************************************************)
(* The field mask.  A mask is a set of these bits.                         *)
(***************************************************************************)
UidBits == {"UID", "EUID", "SUID", "FSUID"}
GidBits == {"GID", "EGID", "SGID", "FSGID"}
CapBits == {"EFFECTIVE_CAPS", "PERMITTED_CAPS", "INHERITABLE_CAPS", "BOUNDING_CAPS"}
CgroupBits == {"CGROUP", "UNIT", "USER_UNIT", "SLICE", "SESSION", "OWNER_UID"}
StatusBits == UidBits \cup GidBits \cup {"SUPPLEMENTARY_GIDS"} \cup CapBits

Fields ==
    {"PID", "PID_STARTTIME", "TID"} \cup UidBits \cup GidBits
    \cup {"SUPPLEMENTARY_GIDS", "COMM", "TID_COMM", "EXE", "CMDLINE"}
    \cup CgroupBits \cup CapBits
    \cup {"SELINUX_CONTEXT", "AUDIT_SESSION_ID", "AUDIT_LOGIN_UID",
          "UNIQUE_NAME", "WELL_KNOWN_NAMES", "DESCRIPTION"}

AUGMENT == "AUGMENT"

\* the pointer members of sd_bus_creds that hold a fetched or copied value
ValuePtrs ==
    {"supplementary_gids", "label", "comm", "tid_comm", "exe", "cmdline",
     "cgroup", "cgroup_root", "capability", "unique_name", "well_known_names",
     "description"}

\* the pointer members that hold a memoized derived value
CachePtrs ==
    {"session", "unit", "user_unit", "slice", "unescaped_description", "cmdline_array"}

AllPtrs == ValuePtrs \cup CachePtrs

Vals == 1..MaxVal

(***************************************************************************)
(* The heap.                                                               *)
(***************************************************************************)
BufIds == 1..MaxBufs

FreeBuf == [live |-> FALSE, data |-> <<>>]

EmptyHeap == [b \in BufIds |-> FreeBuf]

FreeIds(h) == {b \in BufIds : ~h[b].live}

MinOf(S) == CHOOSE x \in S : \A y \in S : x <= y

\* malloc(): the lowest free address, or NULL when none is left
malloc(h, data) ==
    IF FreeIds(h) = {} THEN [heap |-> h, p |-> 0]
    ELSE LET b == MinOf(FreeIds(h))
         IN  [heap |-> [h EXCEPT ![b] = [live |-> TRUE, data |-> data]], p |-> b]

\* free(): free(NULL) does nothing
free(h, p) == IF p = 0 THEN h ELSE [h EXCEPT ![p] = FreeBuf]

Deref(h, p) == IF p = 0 THEN <<>> ELSE h[p].data

(***************************************************************************)
(* sd_bus_creds, zero-initialised by new0() and then owned with one        *)
(* reference.                                                              *)
(***************************************************************************)
ZeroCreds ==
    [live |-> TRUE, allocated |-> FALSE, n_ref |-> 0, mask |-> {},
     uid |-> 0, euid |-> 0, suid |-> 0, fsuid |-> 0,
     gid |-> 0, egid |-> 0, sgid |-> 0, fsgid |-> 0,
     supplementary_gids |-> 0, n_supplementary_gids |-> 0,
     pid |-> 0, tid |-> 0, pid_starttime |-> 0,
     label |-> 0, comm |-> 0, tid_comm |-> 0, exe |-> 0,
     cmdline |-> 0, cmdline_size |-> 0, cmdline_array |-> 0,
     cgroup |-> 0, cgroup_root |-> 0,
     session |-> 0, unit |-> 0, user_unit |-> 0, slice |-> 0,
     capability |-> 0, capability_size |-> 0,
     audit_session_id |-> 0, audit_login_uid |-> 0,
     unique_name |-> 0, well_known_names |-> 0,
     description |-> 0, unescaped_description |-> 0]

bus_creds_new == [ZeroCreds EXCEPT !.allocated = TRUE, !.n_ref = 1]

\* the slot of a freed object
DeadCreds == [ZeroCreds EXCEPT !.live = FALSE]

FreeAll(h, c, ptrs) ==
    [b \in BufIds |-> IF \E f \in ptrs : c[f] = b THEN FreeBuf ELSE h[b]]

\* bus_creds_done(): frees the memoized values
bus_creds_done(h, c) == FreeAll(h, c, CachePtrs)

(***************************************************************************)
(* Reference counting.  A machine state M is [objs, heap, msg]: the        *)
(* credential objects, the heap and the carrier message of the view.       *)
(***************************************************************************)
\* sd_bus_message_ref() of the message that embeds the view
sd_bus_message_ref(M) == [M EXCEPT !.msg.n_ref = @ + 1]

\* sd_bus_message_unref(): the last reference frees the message, which runs
\* bus_creds_done() on the embedded creds and frees the message's memory
sd_bus_message_unref(M, i) ==
    IF M.msg.n_ref - 1 = 0
    THEN [M EXCEPT !.msg = [n_ref |-> 0, live |-> FALSE],
                   !.heap = FreeAll(bus_creds_done(M.heap, M.objs[i]), M.objs[i], ValuePtrs),
                   !.objs[i] = DeadCreds]
    ELSE [M EXCEPT !.msg.n_ref = @ - 1]

\* A variant of the acquire that counts in the object itself, whether or not
\* the object is embedded in a message.
RefOwnCount(M, i) == [M EXCEPT !.objs[i].n_ref = @ + 1]

sd_bus_creds_ref(M, i) ==
    IF M.objs[i].allocated
    THEN [M EXCEPT !.objs[i].n_ref = @ + 1]
    ELSE sd_bus_message_ref(M)

\* A variant of the release that frees the object one reference too early.
UnrefFreeEarly(M, i) ==
    IF i = 0 THEN M
    ELSE IF M.objs[i].allocated
    THEN IF M.objs[i].n_ref - 1 <= 1
         THEN [M EXCEPT !.heap = FreeAll(bus_creds_done(M.heap, M.objs[i]), M.objs[i], ValuePtrs),
                        !.objs[i] = DeadCreds]
         ELSE [M EXCEPT !.objs[i].n_ref = @ - 1]
    ELSE sd_bus_message_unref(M, i)

sd_bus_creds_unref(M, i) ==
    IF i = 0 THEN M
    ELSE IF M.objs[i].allocated
    THEN IF M.objs[i].n_ref - 1 = 0
         THEN [M EXCEPT !.heap = FreeAll(bus_creds_done(M.heap, M.objs[i]), M.objs[i], ValuePtrs),
                        !.objs[i] = DeadCreds]
         ELSE [M EXCEPT !.objs[i].n_ref = @ - 1]
    ELSE sd_bus_message_unref(M, i)

sd_bus_creds_get_mask(c) == c.mask

(***************************************************************************)
(* The getters.  Each returns [r, val]: the return value and what it       *)
(* stores through its output pointer (0 when it stores nothing).           *)
(***************************************************************************)
NoData == [r |-> 0 - ENODATA, val |-> 0]

AssertFailed == [r |-> Aborted, val |-> 0]

Value(v) == [r |-> 0, val |-> v]

sd_bus_creds_get_uid(c) ==
    IF "UID" \notin c.mask THEN NoData ELSE Value(c.uid)

sd_bus_creds_get_euid(c) ==
    IF "EUID" \notin c.mask THEN NoData ELSE Value(c.euid)

sd_bus_creds_get_suid(c) ==
    IF "SUID" \notin c.mask THEN NoData ELSE Value(c.suid)

sd_bus_creds_get_fsuid(c) ==
    IF "FSUID" \notin c.mask THEN NoData ELSE Value(c.fsuid)

sd_bus_creds_get_gid(c) ==
    IF "UID" \notin c.mask THEN NoData ELSE Value(c.gid)

sd_bus_creds_get_egid(c) ==
    IF "EGID" \notin c.mask THEN NoData ELSE Value(c.egid)

sd_bus_creds_get_sgid(c) ==
    IF "SGID" \notin c.mask THEN NoData ELSE Value(c.sgid)

sd_bus_creds_get_fsgid(c) ==
    IF "FSGID" \notin c.mask THEN NoData ELSE Value(c.fsgid)

sd_bus_creds_get_supplementary_gids(c) ==
    IF "SUPPLEMENTARY_GIDS" \notin c.mask THEN NoData
    ELSE [r |-> c.n_supplementary_gids, val |-> c.supplementary_gids]

sd_bus_creds_get_pid(c) ==
    IF "PID" \notin c.mask THEN NoData
    ELSE IF ~(c.pid > 0) THEN AssertFailed
    ELSE Value(c.pid)

sd_bus_creds_get_tid(c) ==
    IF "TID" \notin c.mask THEN NoData
    ELSE IF ~(c.tid > 0) THEN AssertFailed
    ELSE Value(c.tid)

sd_bus_creds_get_pid_starttime(c) ==
    IF "PID_STARTTIME" \notin c.mask THEN NoData
    ELSE IF ~(c.pid_starttime > 0) THEN AssertFailed
    ELSE Value(c.pid_starttime)

sd_bus_creds_get_selinux_context(c) ==
    IF "SELINUX_CONTEXT" \notin c.mask THEN NoData
    ELSE IF c.label = 0 THEN AssertFailed
    ELSE Value(c.label)

sd_bus_creds_get_comm(c) ==
    IF "COMM" \notin c.mask THEN NoData
    ELSE IF c.comm = 0 THEN AssertFailed
    ELSE Value(c.comm)

sd_bus_creds_get_tid_comm(c) ==
    IF "TID_COMM" \notin c.mask THEN NoData
    ELSE IF c.tid_comm = 0 THEN AssertFailed
    ELSE Value(c.tid_comm)

sd_bus_creds_get_exe(c) ==
    IF "EXE" \notin c.mask THEN NoData
    ELSE IF c.exe = 0 THEN AssertFailed
    ELSE Value(c.exe)

sd_bus_creds_get_cgroup(c) ==
    IF "CGROUP" \notin c.mask THEN NoData
    ELSE IF c.cgroup = 0 THEN AssertFailed
    ELSE Value(c.cgroup)

sd_bus_creds_get_audit_session_id(c) ==
    IF "AUDIT_SESSION_ID" \notin c.mask THEN NoData ELSE Value(c.audit_session_id)

sd_bus_creds_get_audit_login_uid(c) ==
    IF "AUDIT_LOGIN_UID" \notin c.mask THEN NoData ELSE Value(c.audit_login_uid)

sd_bus_creds_get_unique_name(c) ==
    IF "UNIQUE_NAME" \notin c.mask THEN NoData ELSE Value(c.unique_name)

sd_bus_creds_get_well_known_names(c) ==
    IF "WELL_KNOWN_NAMES" \notin c.mask THEN NoData ELSE Value(c.well_known_names)

(***************************************************************************)
(* Getters of derived values.  They return [r, val, heap, c]: they may     *)
(* store a memoized value in the object.  d holds what the collaborators   *)
(* answer: d.shift and d.get are 0 or a negative errno.                    *)
(***************************************************************************)
Failure(e) == [r |-> e, val |-> 0]

Out(res, h, c) == [r |-> res.r, val |-> res.val, heap |-> h, c |-> c]

\* cg_shift_path(): the group path relative to the root
cg_shift_path(h, c) == Deref(h, c.cgroup) \o Deref(h, c.cgroup_root)

\* cg_path_get_unit() and its siblings: a newly allocated string derived
\* from the shifted path, or an error
cg_path_get(h, shifted, d, kind) ==
    IF d.get < 0 THEN [r |-> d.get, p |-> 0, heap |-> h]
    ELSE LET a == malloc(h, <<kind>> \o shifted)
         IN  IF a.p = 0 THEN [r |-> 0 - ENOMEM, p |-> 0, heap |-> h]
             ELSE [r |-> 0, p |-> a.p, heap |-> a.heap]

cg_path_get_unit(h, shifted, d) == cg_path_get(h, shifted, d, 1)

cg_path_get_user_unit(h, shifted, d) == cg_path_get(h, shifted, d, 2)

cg_path_get_slice(h, shifted, d) == cg_path_get(h, shifted, d, 3)

cg_path_get_session(h, shifted, d) == cg_path_get(h, shifted, d, 4)

\* cg_path_get_owner_uid(): a uid derived from the shifted path, or an error
cg_path_get_owner_uid(shifted, d) ==
    IF d.get < 0 THEN Failure(d.get)
    ELSE Value(IF shifted = <<>> THEN 0 ELSE shifted[1])

\* A variant of the unit getter that derives the unit on every call.
GetUnitNoMemo(h, c, d) ==
    IF "UNIT" \notin c.mask THEN Out(NoData, h, c)
    ELSE IF c.cgroup = 0 THEN Out(AssertFailed, h, c)
    ELSE IF d.shift < 0 THEN Out(Failure(d.shift), h, c)
    ELSE LET g == cg_path_get_unit(h, cg_shift_path(h, c), d)
         IN  IF g.r < 0 THEN Out(Failure(g.r), h, c)
             ELSE Out(Value(g.p), g.heap, [c EXCEPT !.unit = g.p])

sd_bus_creds_get_unit(h, c, d) ==
    IF "UNIT" \notin c.mask THEN Out(NoData, h, c)
    ELSE IF c.cgroup = 0 THEN Out(AssertFailed, h, c)
    ELSE IF c.unit # 0 THEN Out(Value(c.unit), h, c)
    ELSE IF d.shift < 0 THEN Out(Failure(d.shift), h, c)
    ELSE LET g == cg_path_get_unit(h, cg_shift_path(h, c), d)
         IN  IF g.r < 0 THEN Out(Failure(g.r), h, c)
             ELSE Out(Value(g.p), g.heap, [c EXCEPT !.unit = g.p])

sd_bus_creds_get_user_unit(h, c, d) ==
    IF "USER_UNIT" \notin c.mask THEN Out(NoData, h, c)
    ELSE IF c.cgroup = 0 THEN Out(AssertFailed, h, c)
    ELSE IF c.user_unit # 0 THEN Out(Value(c.user_unit), h, c)
    ELSE IF d.shift < 0 THEN Out(Failure(d.shift), h, c)
    ELSE LET g == cg_path_get_user_unit(h, cg_shift_path(h, c), d)
         IN  IF g.r < 0 THEN Out(Failure(g.r), h, c)
             ELSE Out(Value(g.p), g.heap, [c EXCEPT !.user_unit = g.p])

sd_bus_creds_get_slice(h, c, d) ==
    IF "SLICE" \notin c.mask THEN Out(NoData, h, c)
    ELSE IF c.cgroup = 0 THEN Out(AssertFailed, h, c)
    ELSE IF c.slice # 0 THEN Out(Value(c.slice), h, c)
    ELSE IF d.shift < 0 THEN Out(Failure(d.shift), h, c)
    ELSE LET g == cg_path_get_slice(h, cg_shift_path(h, c), d)
         IN  IF g.r < 0 THEN Out(Failure(g.r), h, c)
             ELSE Out(Value(g.p), g.heap, [c EXCEPT !.slice = g.p])

sd_bus_creds_get_session(h, c, d) ==
    IF "SESSION" \notin c.mask THEN Out(NoData, h, c)
    ELSE IF c.cgroup = 0 THEN Out(AssertFailed, h, c)
    ELSE IF c.session # 0 THEN Out(Value(c.session), h, c)
    ELSE IF d.shift < 0 THEN Out(Failure(d.shift), h, c)
    ELSE LET g == cg_path_get_session(h, cg_shift_path(h, c), d)
         IN  IF g.r < 0 THEN Out(Failure(g.r), h, c)
             ELSE Out(Value(g.p), g.heap, [c EXCEPT !.session = g.p])

sd_bus_creds_get_owner_uid(h, c, d) ==
    IF "OWNER_UID" \notin c.mask THEN Out(NoData, h, c)
    ELSE IF c.cgroup = 0 THEN Out(AssertFailed, h, c)
    ELSE IF d.shift < 0 THEN Out(Failure(d.shift), h, c)
    ELSE Out(cg_path_get_owner_uid(cg_shift_path(h, c), d), h, c)

\* strv_parse_nulstr(): the strings of a NUL-separated blob (byte 0 is NUL)
RECURSIVE SplitNul(_, _)
SplitNul(bytes, cur) ==
    IF bytes = <<>> THEN (IF cur = <<>> THEN <<>> ELSE <<cur>>)
    ELSE IF Head(bytes) = 0 THEN <<cur>> \o SplitNul(Tail(bytes), <<>>)
    ELSE SplitNul(Tail(bytes), Append(cur, Head(bytes)))

strv_parse_nulstr(bytes, size) == SplitNul(SubSeq(bytes, 1, size), <<>>)

sd_bus_creds_get_cmdline(h, c, d) ==
    IF "CMDLINE" \notin c.mask THEN Out(NoData, h, c)
    ELSE IF c.cmdline = 0 THEN Out(Failure(0 - ESRCH), h, c)
    ELSE IF c.cmdline_array # 0 THEN Out(Value(c.cmdline_array), h, c)
    ELSE LET a == IF d.get < 0 THEN [heap |-> h, p |-> 0]
                  ELSE malloc(h, strv_parse_nulstr(Deref(h, c.cmdline), c.cmdline_size))
         IN  IF a.p = 0 THEN Out(Failure(0 - ENOMEM), h, c)
             ELSE Out(Value(a.p), a.heap, [c EXCEPT !.cmdline_array = a.p])

\* bus_label_unescape(): character 0 stands for '_', which introduces two
\* hex digits of one escaped character
RECURSIVE bus_label_unescape(_)
bus_label_unescape(s) ==
    IF s = <<>> THEN <<>>
    ELSE IF s[1] = 0 /\ Len(s) >= 3
         THEN <<16 * s[2] + s[3]>> \o bus_label_unescape(SubSeq(s, 4, Len(s)))
         ELSE <<s[1]>> \o bus_label_unescape(Tail(s))

sd_bus_creds_get_description(h, c, d) ==
    IF "DESCRIPTION" \notin c.mask THEN Out(NoData, h, c)
    ELSE IF c.description = 0 THEN Out(AssertFailed, h, c)
    ELSE IF c.unescaped_description # 0 THEN Out(Value(c.unescaped_description), h, c)
    ELSE LET a == IF d.get < 0 THEN [heap |-> h, p |-> 0]
                  ELSE malloc(h, bus_label_unescape(Deref(h, c.description)))
         IN  IF a.p = 0 THEN Out(Failure(0 - ENOMEM), h, c)
             ELSE Out(Value(a.p), a.heap, [c EXCEPT !.unescaped_description = a.p])

(***************************************************************************)
(* The capability codec.                                                   *)
(***************************************************************************)
Pow2(n) == IF n = 0 THEN 1 ELSE IF n = 1 THEN 2 ELSE IF n = 2 THEN 4
           ELSE IF n = 3 THEN 8 ELSE IF n = 4 THEN 16 ELSE IF n = 5 THEN 32
           ELSE IF n = 6 THEN 64 ELSE 128

\* A variant of has_cap() that looks the capability up in the first category
\* of the vector, whatever the offset.
HasCapFirstCategory(h, c, offset, capability) ==
    IF c.capability = 0 THEN Aborted
    ELSE LET sz == c.capability_size \div 4
             idx == capability \div 8
             vec == Deref(h, c.capability)
         IN  IF capability >= sz * 8 THEN 0
             ELSE (vec[idx + 1] \div Pow2(capability % 8)) % 2

\* has_cap(): capability is >= 0 here
has_cap(h, c, offset, capability) ==
    IF c.capability = 0 THEN Aborted
    ELSE LET sz == c.capability_size \div 4
             idx == offset * sz + (capability \div 8)
             vec == Deref(h, c.capability)
         IN  IF capability >= sz * 8 THEN 0
             ELSE (vec[idx + 1] \div Pow2(capability % 8)) % 2

HasCapResult(v) == [r |-> v, val |-> 0]

sd_bus_creds_has_effective_cap(h, c, capability) ==
    IF capability < 0 THEN Failure(0 - EINVAL)
    ELSE IF "EFFECTIVE_CAPS" \notin c.mask THEN NoData
    ELSE HasCapResult(has_cap(h, c, CAP_OFFSET_EFFECTIVE, capability))

sd_bus_creds_has_permitted_cap(h, c, capability) ==
    IF capability < 0 THEN Failure(0 - EINVAL)
    ELSE IF "PERMITTED_CAPS" \notin c.mask THEN NoData
    ELSE HasCapResult(has_cap(h, c, CAP_OFFSET_PERMITTED, capability))

sd_bus_creds_has_inheritable_cap(h, c, capability) ==
    IF capability < 0 THEN Failure(0 - EINVAL)
    ELSE IF "INHERITABLE_CAPS" \notin c.mask THEN NoData
    ELSE HasCapResult(has_cap(h, c, CAP_OFFSET_INHERITABLE, capability))

sd_bus_creds_has_bounding_cap(h, c, capability) ==
    IF capability < 0 THEN Failure(0 - EINVAL)
    ELSE IF "BOUNDING_CAPS" \notin c.mask THEN NoData
    ELSE HasCapResult(has_cap(h, c, CAP_OFFSET_BOUNDING, capability))

\* Characters of a capability line: 0..15 are the hex digits, NonHex is a
\* character that is no hex digit, Blank is a whitespace character.
NonHex == 16
Blank == 17

unhexchar(ch) == IF ch >= 0 /\ ch <= 15 THEN ch ELSE 0 - 1

RECURSIVE SkipBlanks(_)
SkipBlanks(p) ==
    IF p # <<>> /\ Head(p) = Blank THEN SkipBlanks(Tail(p)) ELSE p

Zeros(n) == [k \in 1..n |-> 0]

\* the loop of parse_caps() from round i on: [r, vec, oob], oob when a store
\* fell outside the vector
\* A variant of the loop that stores the bytes in the order it parses them.
RECURSIVE ParseCapsLoopForward(_, _, _, _, _, _)
ParseCapsLoopForward(vec, offset, sz, p, i, oob) ==
    IF i >= sz THEN [r |-> 0, vec |-> vec, oob |-> oob]
    ELSE LET x == unhexchar(p[i * 2 + 1])
             y == unhexchar(p[i * 2 + 2])
             idx == offset * sz + i
         IN  IF x < 0 \/ y < 0 THEN [r |-> 0 - EINVAL, vec |-> vec, oob |-> oob]
             ELSE IF idx + 1 > Len(vec)
                  THEN ParseCapsLoopForward(vec, offset, sz, p, i + 1, TRUE)
                  ELSE ParseCapsLoopForward([vec EXCEPT ![idx + 1] = (x * 16 + y) % 256],
                                            offset, sz, p, i + 1, oob)

RECURSIVE ParseCapsLoop(_, _, _, _, _, _)
ParseCapsLoop(vec, offset, sz, p, i, oob) ==
    IF i >= sz THEN [r |-> 0, vec |-> vec, oob |-> oob]
    ELSE LET x == unhexchar(p[i * 2 + 1])
             y == unhexchar(p[i * 2 + 2])
             idx == offset * sz + (sz - i - 1)
         IN  IF x < 0 \/ y < 0 THEN [r |-> 0 - EINVAL, vec |-> vec, oob |-> oob]
             ELSE IF idx + 1 > Len(vec)
                  THEN ParseCapsLoop(vec, offset, sz, p, i + 1, TRUE)
                  ELSE ParseCapsLoop([vec EXCEPT ![idx + 1] = (x * 16 + y) % 256],
                                     offset, sz, p, i + 1, oob)

(***************************************************************************)
(* bus_creds_add_more().  A run R of a call is [M, i, r, done, q, na, oom, *)
(* oob]: the machine state, the object worked on, the return value once    *)
(* done, the OS sources queried so far, the number of allocations made,    *)
(* the number of the allocation that fails (0: none) and whether a store   *)
(* fell outside its buffer.  e holds what the OS sources answer.           *)
(***************************************************************************)
Run(M, i, oom) ==
    [M |-> M, i |-> i, r |-> 0, done |-> FALSE, q |-> <<>>, na |-> 0,
     oom |-> oom, oob |-> FALSE]

Obj(R) == R.M.objs[R.i]

SetObj(R, c) == [R EXCEPT !.M.objs[R.i] = c]

Return(R, r) == [R EXCEPT !.r = r, !.done = TRUE]

Query(R, src) == [R EXCEPT !.q = Append(@, src)]

\* an allocation made by the code itself: [R, p], p = 0 when it fails
Xmalloc(R, data) ==
    LET a == IF R.na + 1 = R.oom THEN [heap |-> R.M.heap, p |-> 0]
             ELSE malloc(R.M.heap, data)
    IN  [R |-> [R EXCEPT !.M.heap = a.heap, !.na = @ + 1], p |-> a.p]

\* a collaborator that returns a newly allocated buffer through a pointer
\* member: [R, r]
StoreResult(R, res, fld) ==
    IF res.r < 0 THEN [R |-> R, r |-> res.r]
    ELSE LET a == malloc(R.M.heap, res.v)
         IN  IF a.p = 0 THEN [R |-> R, r |-> 0 - ENOMEM]
             ELSE [R |-> [R EXCEPT !.M.heap = a.heap, !.M.objs[R.i][fld] = a.p],
                   r |-> 0]

AddMask(R, bits) == [R EXCEPT !.M.objs[R.i].mask = @ \cup bits]

PermissionErrors == {0 - EPERM, 0 - EACCES}

\* Tokens of a status line: a number, or Junk for a token that is no number
Junk == 0 - 1

\* sscanf() of up to n "%lu": how many leading tokens are numbers
RECURSIVE ScanCount(_, _)
ScanCount(toks, n) ==
    IF n = 0 \/ toks = <<>> \/ Head(toks) = Junk THEN 0
    ELSE 1 + ScanCount(Tail(toks), n - 1)

\* A variant of the "Uid:" line that sets the bits before it has validated
\* the line.
ParseUidEager(R, missing, toks) ==
    IF ScanCount(toks, 4) # 4 THEN Return(AddMask(R, missing \cap UidBits), 0 - EIO)
    ELSE AddMask(SetObj(R, [Obj(R) EXCEPT !.uid = toks[1],
                                          !.euid = toks[2],
                                          !.suid = toks[3],
                                          !.fsuid = toks[4]]),
                 missing \cap UidBits)

\* the "Uid:" line
ParseUid(R, missing, toks) ==
    IF ScanCount(toks, 4) # 4 THEN Return(R, 0 - EIO)
    ELSE AddMask(SetObj(R, [Obj(R) EXCEPT !.uid = toks[1],
                                          !.euid = toks[2],
                                          !.suid = toks[3],
                                          !.fsuid = toks[4]]),
                 missing \cap UidBits)

\* the "Gid:" line
ParseGid(R, missing, toks) ==
    IF ScanCount(toks, 4) # 4 THEN Return(R, 0 - EIO)
    ELSE AddMask(SetObj(R, [Obj(R) EXCEPT !.gid = toks[1],
                                          !.egid = toks[2],
                                          !.sgid = toks[3],
                                          !.fsgid = toks[4]]),
                 missing \cap GidBits)

\* GREEDY_REALLOC of c->supplementary_gids, needed for the first entry only
\* (it reserves room for the following ones): [R, p]
GreedyRealloc(R, first) ==
    IF ~first THEN [R |-> R, p |-> Obj(R).supplementary_gids]
    ELSE IF Obj(R).supplementary_gids = 0
    THEN LET a == Xmalloc(R, <<>>)
         IN  [R |-> [a.R EXCEPT !.M.objs[R.i].supplementary_gids = a.p], p |-> a.p]
    ELSE IF R.na + 1 = R.oom THEN [R |-> [R EXCEPT !.na = @ + 1], p |-> 0]
    ELSE [R |-> [R EXCEPT !.na = @ + 1], p |-> Obj(R).supplementary_gids]

\* A variant of the "Groups:" line that sets the bit before it has read the
\* numbers.
RECURSIVE ParseGroupsEager(_, _, _)
ParseGroupsEager(R, toks, k) ==
    IF k > Len(toks) THEN AddMask(R, {"SUPPLEMENTARY_GIDS"})
    ELSE IF toks[k] = Junk THEN Return(AddMask(R, {"SUPPLEMENTARY_GIDS"}), 0 - EIO)
    ELSE LET g == GreedyRealloc(R, k = 1)
         IN  IF g.p = 0 THEN Return(g.R, 0 - ENOMEM)
             ELSE ParseGroupsEager(
                    [g.R EXCEPT !.M.heap[g.p].data = Append(@, toks[k]),
                                !.M.objs[R.i].n_supplementary_gids = @ + 1],
                    toks, k + 1)

\* the "Groups:" line, from token k on
RECURSIVE ParseGroups(_, _, _)
ParseGroups(R, toks, k) ==
    IF k > Len(toks) THEN AddMask(R, {"SUPPLEMENTARY_GIDS"})
    ELSE IF toks[k] = Junk THEN Return(R, 0 - EIO)
    ELSE LET g == GreedyRealloc(R, k = 1)
         IN  IF g.p = 0 THEN Return(g.R, 0 - ENOMEM)
             ELSE ParseGroups(
                    [g.R EXCEPT !.M.heap[g.p].data = Append(@, toks[k]),
                                !.M.objs[R.i].n_supplementary_gids = @ + 1],
                    toks, k + 1)

\* parse_caps() once c->capability is there: the loop stores the bytes of
\* the category: [R, r]
CapsStore(R, offset, p) ==
    LET w == ParseCapsLoop(Deref(R.M.heap, Obj(R).capability), offset, Len(p) \div 2, p, 0, FALSE)
    IN  [R |-> [R EXCEPT !.M.heap[Obj(R).capability].data = w.vec, !.oob = @ \/ w.oob],
         r |-> w.r]

\* parse_caps() on the object of R: [R, r]
parse_caps(R, offset, text) ==
    IF Len(SkipBlanks(text)) % 2 # 0 THEN [R |-> R, r |-> 0 - EINVAL]
    ELSE IF Obj(R).capability # 0 THEN CapsStore(R, offset, SkipBlanks(text))
    ELSE LET a == Xmalloc(R, Zeros((Len(SkipBlanks(text)) \div 2) * 4))
         IN  IF a.p = 0 THEN [R |-> a.R, r |-> 0 - ENOMEM]
             ELSE CapsStore([a.R EXCEPT !.M.objs[R.i].capability = a.p,
                                        !.M.objs[R.i].capability_size =
                                            (Len(SkipBlanks(text)) \div 2) * 4],
                            offset, SkipBlanks(text))

\* a "Cap...:" line
ParseCapLine(R, offset, bit, text) ==
    LET w == parse_caps(R, offset, text)
    IN  IF w.r < 0 THEN Return(w.R, w.r) ELSE AddMask(w.R, {bit})

\* the body of FOREACH_LINE for one line
ParseLine(R, missing, line) ==
    IF missing \cap UidBits # {} /\ line.key = "Uid:" THEN ParseUid(R, missing, line.toks)
    ELSE IF missing \cap GidBits # {} /\ line.key = "Gid:" THEN ParseGid(R, missing, line.toks)
    ELSE IF "SUPPLEMENTARY_GIDS" \in missing /\ line.key = "Groups:"
         THEN ParseGroups(R, line.toks, 1)
    ELSE IF "EFFECTIVE_CAPS" \in missing /\ line.key = "CapEff:"
         THEN ParseCapLine(R, CAP_OFFSET_EFFECTIVE, "EFFECTIVE_CAPS", line.toks)
    ELSE IF "PERMITTED_CAPS" \in missing /\ line.key = "CapPrm:"
         THEN ParseCapLine(R, CAP_OFFSET_PERMITTED, "PERMITTED_CAPS", line.toks)
    ELSE IF "INHERITABLE_CAPS" \in missing /\ line.key = "CapInh:"
         THEN ParseCapLine(R, CAP_OFFSET_INHERITABLE, "INHERITABLE_CAPS", line.toks)
    ELSE IF "BOUNDING_CAPS" \in missing /\ line.key = "CapBnd:"
         THEN ParseCapLine(R, CAP_OFFSET_BOUNDING, "BOUNDING_CAPS", line.toks)
    ELSE R

\* FOREACH_LINE over the status record from line k on; rderr is the errno of
\* a read that fails after the last line (0: end of file)
RECURSIVE ForeachLine(_, _, _, _, _)
ForeachLine(R, missing, lines, k, rderr) ==
    IF R.done THEN R
    ELSE IF k > Len(lines) THEN (IF rderr # 0 THEN Return(R, 0 - rderr) ELSE R)
    ELSE ForeachLine(ParseLine(R, missing, lines[k]), missing, lines, k + 1, rderr)

\* A variant of the open of the status record that treats every failure other
\* than ENOENT as fatal, EPERM and EACCES included.
StepStatusStrict(R, missing, e) ==
    IF R.done \/ missing \cap StatusBits = {} THEN R
    ELSE IF e.status.open # 0
         THEN IF e.status.open = ENOENT THEN Return(Query(R, "status"), 0 - ESRCH)
              ELSE Return(Query(R, "status"), 0 - e.status.open)
         ELSE ForeachLine(Query(R, "status"), missing, e.status.lines, 1, e.status.rderr)

StepStatus(R, missing, e) ==
    IF R.done \/ missing \cap StatusBits = {} THEN R
    ELSE LET R1 == Query(R, "status")
         IN  IF e.status.open # 0
             THEN IF e.status.open = ENOENT THEN Return(R1, 0 - ESRCH)
                  ELSE IF e.status.open # EPERM /\ e.status.open # EACCES
                       THEN Return(R1, 0 - e.status.open)
                  ELSE R1
             ELSE ForeachLine(R1, missing, e.status.lines, 1, e.status.rderr)

StepStarttime(R, missing, e) ==
    IF R.done \/ "PID_STARTTIME" \notin missing THEN R
    ELSE LET R1 == Query(R, "starttime")
         IN  IF e.starttime.r < 0
             THEN IF e.starttime.r \notin PermissionErrors THEN Return(R1, e.starttime.r)
                  ELSE R1
             ELSE AddMask(SetObj(R1, [Obj(R1) EXCEPT !.pid_starttime =
                                         (e.starttime.v * USEC_PER_SEC) \div CLK_TCK]),
                          {"PID_STARTTIME"})

\* A variant of the label fetch that skips permission failures only, as the
\* fetches of the process name and the executable path do.
StepLabelStrict(R, missing, e) ==
    IF R.done \/ "SELINUX_CONTEXT" \notin missing THEN R
    ELSE LET s == StoreResult(Query(R, "label"), e.label, "label")
         IN  IF s.r < 0
             THEN IF s.r \notin PermissionErrors THEN Return(s.R, s.r) ELSE s.R
             ELSE AddMask(s.R, {"SELINUX_CONTEXT"})

StepLabel(R, missing, e) ==
    IF R.done \/ "SELINUX_CONTEXT" \notin missing THEN R
    ELSE LET s == StoreResult(Query(R, "label"), e.label, "label")
         IN  IF s.r < 0
             THEN IF s.r \notin {0 - ENOENT, 0 - EINVAL} \cup PermissionErrors
                  THEN Return(s.R, s.r) ELSE s.R
             ELSE AddMask(s.R, {"SELINUX_CONTEXT"})

\* A variant of the fetch of the process name that runs even when an earlier
\* step has failed.
StepCommRegardless(R, missing, e) ==
    IF "COMM" \notin missing THEN R
    ELSE LET s == StoreResult(Query(R, "comm"), e.comm, "comm")
         IN  IF s.r < 0
             THEN IF s.r \notin PermissionErrors THEN Return(s.R, s.r) ELSE s.R
             ELSE AddMask(s.R, {"COMM"})

StepComm(R, missing, e) ==
    IF R.done \/ "COMM" \notin missing THEN R
    ELSE LET s == StoreResult(Query(R, "comm"), e.comm, "comm")
         IN  IF s.r < 0
             THEN IF s.r \notin PermissionErrors THEN Return(s.R, s.r) ELSE s.R
             ELSE AddMask(s.R, {"COMM"})

StepExe(R, missing, e) ==
    IF R.done \/ "EXE" \notin missing THEN R
    ELSE LET s == StoreResult(Query(R, "exe"), e.exe, "exe")
         IN  IF s.r < 0
             THEN IF s.r \notin PermissionErrors THEN Return(s.R, s.r) ELSE s.R
             ELSE AddMask(s.R, {"EXE"})

\* A variant of the command line fetch that takes a permission failure for a
\* vanished process, as it takes ENOENT.
StepCmdlineDeniedGone(R, missing, e) ==
    IF R.done \/ "CMDLINE" \notin missing THEN R
    ELSE LET s == StoreResult(Query(R, "cmdline"), e.cmdline, "cmdline")
         IN  IF s.r < 0
             THEN IF s.r \in {0 - ENOENT} \cup PermissionErrors THEN Return(s.R, 0 - ESRCH)
                  ELSE Return(s.R, s.r)
             ELSE LET R1 == [s.R EXCEPT !.M.objs[R.i].cmdline_size = Len(e.cmdline.v)]
                  IN  IF Len(e.cmdline.v) = 0
                      THEN [R1 EXCEPT !.M.heap = free(@, Obj(R1).cmdline),
                                      !.M.objs[R.i].cmdline = 0]
                      ELSE AddMask(R1, {"CMDLINE"})

StepCmdline(R, missing, e) ==
    IF R.done \/ "CMDLINE" \notin missing THEN R
    ELSE LET s == StoreResult(Query(R, "cmdline"), e.cmdline, "cmdline")
         IN  IF s.r < 0
             THEN IF s.r = 0 - ENOENT THEN Return(s.R, 0 - ESRCH)
                  ELSE IF s.r \notin PermissionErrors THEN Return(s.R, s.r)
                  ELSE s.R
             ELSE LET R1 == [s.R EXCEPT !.M.objs[R.i].cmdline_size = Len(e.cmdline.v)]
                  IN  IF Len(e.cmdline.v) = 0
                      THEN [R1 EXCEPT !.M.heap = free(@, Obj(R1).cmdline),
                                      !.M.objs[R.i].cmdline = 0]
                      ELSE AddMask(R1, {"CMDLINE"})

StepTidComm(R, missing, tid, e) ==
    IF R.done \/ ~(tid > 0 /\ "TID_COMM" \in missing) THEN R
    ELSE LET a == Xmalloc(R, <<>>)
         IN  IF a.p = 0 THEN Return(a.R, 0 - ENOMEM)
             ELSE LET s == StoreResult(Query(a.R, "tid_comm"), e.tid_comm, "tid_comm")
                      R1 == [s.R EXCEPT !.M.heap = free(@, a.p)]
                  IN  IF s.r < 0
                      THEN IF s.r = 0 - ENOENT THEN Return(R1, 0 - ESRCH)
                           ELSE IF s.r \notin PermissionErrors THEN Return(R1, s.r)
                           ELSE R1
                      ELSE AddMask(R1, {"TID_COMM"})

\* A variant of the group path step that sets the family's bits as soon as
\* the raw path is there, before the root is fetched.
StepCgroupEager(R, missing, e) ==
    IF R.done \/ missing \cap CgroupBits = {} THEN R
    ELSE LET s == StoreResult(Query(R, "cgroup"), e.cgroup, "cgroup")
         IN  IF s.r < 0
             THEN IF s.r \notin PermissionErrors THEN Return(s.R, s.r) ELSE s.R
             ELSE LET t == StoreResult(Query(AddMask(s.R, missing \cap CgroupBits),
                                             "cgroup_root"),
                                       e.cgroup_root, "cgroup_root")
                  IN  IF t.r < 0 THEN Return(t.R, t.r) ELSE t.R

StepCgroup(R, missing, e) ==
    IF R.done \/ missing \cap CgroupBits = {} THEN R
    ELSE LET s == StoreResult(Query(R, "cgroup"), e.cgroup, "cgroup")
         IN  IF s.r < 0
             THEN IF s.r \notin PermissionErrors THEN Return(s.R, s.r) ELSE s.R
             ELSE LET t == StoreResult(Query(s.R, "cgroup_root"), e.cgroup_root, "cgroup_root")
                  IN  IF t.r < 0 THEN Return(t.R, t.r)
                      ELSE AddMask(t.R, missing \cap CgroupBits)

AuditSkipErrors == {0 - ENOTSUP, 0 - ENXIO, 0 - ENOENT} \cup PermissionErrors

StepAuditSession(R, missing, e) ==
    IF R.done \/ "AUDIT_SESSION_ID" \notin missing THEN R
    ELSE LET R1 == Query(R, "audit_session")
         IN  IF e.audit_session.r < 0
             THEN IF e.audit_session.r \notin AuditSkipErrors
                  THEN Return(R1, e.audit_session.r) ELSE R1
             ELSE AddMask(SetObj(R1, [Obj(R1) EXCEPT !.audit_session_id = e.audit_session.v]),
                          {"AUDIT_SESSION_ID"})

StepAuditLogin(R, missing, e) ==
    IF R.done \/ "AUDIT_LOGIN_UID" \notin missing THEN R
    ELSE LET R1 == Query(R, "audit_login")
         IN  IF e.audit_login.r < 0
             THEN IF e.audit_login.r \notin AuditSkipErrors
                  THEN Return(R1, e.audit_login.r) ELSE R1
             ELSE AddMask(SetObj(R1, [Obj(R1) EXCEPT !.audit_login_uid = e.audit_login.v]),
                          {"AUDIT_LOGIN_UID"})

\* A variant of the process id resolution that falls back to the caller's
\* own process, as sd_bus_creds_new_from_pid() does for pid 0.
ResolvePidSelf(c, pid) ==
    IF pid > 0 THEN pid ELSE IF "PID" \in c.mask THEN c.pid ELSE 1

\* the process id and thread id the call works with
ResolvePid(c, pid) == IF pid <= 0 /\ "PID" \in c.mask THEN c.pid ELSE pid

ResolveTid(c, tid) == IF tid <= 0 /\ "TID" \in c.mask THEN c.pid ELSE tid

\* lines 682-690: record the ids and set their bits
StorePidTid(R, pid, tid) ==
    LET R1 == IF pid > 0
              THEN AddMask(SetObj(R, [Obj(R) EXCEPT !.pid = pid]), {"PID"})
              ELSE R
    IN  IF tid > 0
        THEN AddMask(SetObj(R1, [Obj(R1) EXCEPT !.tid = tid]), {"TID"})
        ELSE R1

\* line 941: return 0
Finish(R) == IF R.done THEN R ELSE Return(R, 0)

\* A variant of the call that fetches every requested field, present or not.
AddMoreRefetch(R, mask, pid0, tid0, e) ==
    LET c == Obj(R)
        missing == mask
        pid == ResolvePid(c, pid0)
        tid == ResolveTid(c, tid0)
    IN  IF AUGMENT \notin mask THEN Return(R, 0)
        ELSE IF missing = {} THEN Return(R, 0)
        ELSE IF pid <= 0 THEN Return(R, 0)
        ELSE Finish(
               StepAuditLogin(
                 StepAuditSession(
                   StepCgroup(
                     StepTidComm(
                       StepCmdline(
                         StepExe(
                           StepComm(
                             StepLabel(
                               StepStarttime(
                                 StepStatus(StorePidTid(R, pid, tid), missing, e),
                                 missing, e),
                               missing, e),
                             missing, e),
                           missing, e),
                         missing, e),
                       missing, tid, e),
                     missing, e),
                   missing, e),
                 missing, e))

\* the run of bus_creds_add_more(c, mask, pid, tid) on R's object; the steps
\* run in the order of the code, innermost first
bus_creds_add_more(R, mask, pid0, tid0, e) ==
    LET c == Obj(R)
        missing == mask \ c.mask
        pid == ResolvePid(c, pid0)
        tid == ResolveTid(c, tid0)
    IN  IF AUGMENT \notin mask THEN Return(R, 0)
        ELSE IF missing = {} THEN Return(R, 0)
        ELSE IF pid <= 0 THEN Return(R, 0)
        ELSE Finish(
               StepAuditLogin(
                 StepAuditSession(
                   StepCgroup(
                     StepTidComm(
                       StepCmdline(
                         StepExe(
                           StepComm(
                             StepLabel(
                               StepStarttime(
                                 StepStatus(StorePidTid(R, pid, tid), missing, e),
                                 missing, e),
                               missing, e),
                             missing, e),
                           missing, e),
                         missing, e),
                       missing, tid, e),
                     missing, e),
                   missing, e),
                 missing, e))

(***************************************************************************)
(* bus_creds_extend_by_pid().                                              *)
(***************************************************************************)
\* A variant of the test of line 951 that forgets the AUGMENT flag: it takes
\* the short way only when no requested bit is missing.
ExtendFastPathNoFlag(c, mask) == (mask \ c.mask) = {}

\* line 951: all the data is there already, or augmentation is off
ExtendFastPath(c, mask) == (mask \ c.mask) = {} \/ AUGMENT \notin mask

\* The copies of lines 965-1117, in the order of the code: the bits that
\* trigger the copy, the members assigned, the members duplicated, and the
\* bits set in the new object.
CopySteps(c, mask) ==
    << [bits |-> {"UID"}, assign |-> {"uid"}, dup |-> <<>>, set |-> {"UID"}],
       [bits |-> {"EUID"}, assign |-> {"euid"}, dup |-> <<>>, set |-> {"EUID"}],
       [bits |-> {"SUID"}, assign |-> {"suid"}, dup |-> <<>>, set |-> {"SUID"}],
       [bits |-> {"FSUID"}, assign |-> {"fsuid"}, dup |-> <<>>, set |-> {"FSUID"}],
       [bits |-> {"GID"}, assign |-> {"gid"}, dup |-> <<>>, set |-> {"GID"}],
       [bits |-> {"EGID"}, assign |-> {"egid"}, dup |-> <<>>, set |-> {"EGID"}],
       [bits |-> {"SGID"}, assign |-> {"sgid"}, dup |-> <<>>, set |-> {"SGID"}],
       [bits |-> {"FSGID"}, assign |-> {"fsgid"}, dup |-> <<>>, set |-> {"FSGID"}],
       [bits |-> {"SUPPLEMENTARY_GIDS"}, assign |-> {"n_supplementary_gids"},
        dup |-> <<"supplementary_gids">>, set |-> {"SUPPLEMENTARY_GIDS"}],
       [bits |-> {"PID"}, assign |-> {"pid"}, dup |-> <<>>, set |-> {"PID"}],
       [bits |-> {"TID"}, assign |-> {"tid"}, dup |-> <<>>, set |-> {"TID"}],
       [bits |-> {"PID_STARTTIME"}, assign |-> {"pid_starttime"}, dup |-> <<>>,
        set |-> {"PID_STARTTIME"}],
       [bits |-> {"COMM"}, assign |-> {}, dup |-> <<"comm">>, set |-> {"COMM"}],
       [bits |-> {"TID_COMM"}, assign |-> {}, dup |-> <<"tid_comm">>, set |-> {"TID_COMM"}],
       [bits |-> {"EXE"}, assign |-> {}, dup |-> <<"exe">>, set |-> {"EXE"}],
       [bits |-> {"CMDLINE"}, assign |-> {"cmdline_size"}, dup |-> <<"cmdline">>,
        set |-> {"CMDLINE"}],
       [bits |-> CgroupBits, assign |-> {}, dup |-> <<"cgroup", "cgroup_root">>,
        set |-> mask \cap CgroupBits],
       [bits |-> CapBits, assign |-> {"capability_size"}, dup |-> <<"capability">>,
        set |-> c.mask \cap mask \cap CapBits],
       [bits |-> {"SELINUX_CONTEXT"}, assign |-> {}, dup |-> <<"label">>,
        set |-> {"SELINUX_CONTEXT"}],
       [bits |-> {"AUDIT_SESSION_ID"}, assign |-> {"audit_session_id"}, dup |-> <<>>,
        set |-> {"AUDIT_SESSION_ID"}],
       [bits |-> {"AUDIT_LOGIN_UID"}, assign |-> {"audit_login_uid"}, dup |-> <<>>,
        set |-> {"AUDIT_LOGIN_UID"}],
       [bits |-> {"UNIQUE_NAME"}, assign |-> {}, dup |-> <<"unique_name">>,
        set |-> {"UNIQUE_NAME"}],
       [bits |-> {"WELL_KNOWN_NAMES"}, assign |-> {}, dup |-> <<"well_known_names">>,
        set |-> {"WELL_KNOWN_NAMES"}],
       [bits |-> {"DESCRIPTION"}, assign |-> {}, dup |-> <<"description">>,
        set |-> {"DESCRIPTION"}] >>

\* A variant of the duplication that stores the original's pointer in the
\* new object instead of a copy.
DupMemberAlias(R, c, fld) ==
    [R |-> [R EXCEPT !.M.objs[R.i][fld] = c[fld], !.na = @ + 1], p |-> c[fld]]

\* strdup(), memdup(), newdup(), strv_copy() of one member of c into the
\* new object: [R, p]
DupMember(R, c, fld) ==
    LET a == Xmalloc(R, Deref(R.M.heap, c[fld]))
    IN  [R |-> [a.R EXCEPT !.M.objs[R.i][fld] = a.p], p |-> a.p]

\* the duplications of one copy step, from member k on
RECURSIVE DupMembers(_, _, _, _)
DupMembers(R, c, flds, k) ==
    IF k > Len(flds) THEN R
    ELSE LET d == DupMember(R, c, flds[k])
         IN  IF d.p = 0 THEN Return(d.R, 0 - ENOMEM)
             ELSE DupMembers(d.R, c, flds, k + 1)

\* A variant of a copy step that forgets "n->mask |=" after duplicating a
\* variable-length member.
CopyStepNoBit(R, c, mask, step) ==
    IF c.mask \cap mask \cap step.bits = {} THEN R
    ELSE LET R1 == DupMembers(R, c, step.dup, 1)
         IN  IF R1.done THEN R1
             ELSE AddMask(SetObj(R1, [f \in DOMAIN Obj(R1) |->
                                        IF f \in step.assign THEN c[f] ELSE Obj(R1)[f]]),
                          IF step.dup = <<>> THEN step.set ELSE {})

CopyStep(R, c, mask, step) ==
    IF c.mask \cap mask \cap step.bits = {} THEN R
    ELSE LET R1 == DupMembers(R, c, step.dup, 1)
         IN  IF R1.done THEN R1
             ELSE AddMask(SetObj(R1, [f \in DOMAIN Obj(R1) |->
                                        IF f \in step.assign THEN c[f] ELSE Obj(R1)[f]]),
                          step.set)

\* "Copy the original data over", from step k on
RECURSIVE CopyOriginal(_, _, _, _)
CopyOriginal(R, c, mask, k) ==
    IF R.done \/ k > Len(CopySteps(c, mask)) THEN R
    ELSE CopyOriginal(CopyStep(R, c, mask, CopySteps(c, mask)[k]), c, mask, k + 1)

\* the ids handed to bus_creds_add_more(), lines 1122-1123
ExtendPid(c) == IF "PID" \in c.mask THEN c.pid ELSE 0

ExtendTid(c) == IF "TID" \in c.mask THEN c.tid ELSE 0

\* what a call returns to its caller: the machine state after it, the return
\* value, the handle stored through ret (0: nothing stored), the object the
\* call created (0: none), the sources queried and the overflow flag
Result(M, r, ret, n, q, oob) ==
    [M |-> M, r |-> r, ret |-> ret, n |-> n, q |-> q, oob |-> oob]

\* A variant of the failure path without the cleanup: the new object stays.
ExtendNoCleanup(R) == Result(R.M, R.r, 0, R.i, R.q, R.oob)

\* _cleanup_bus_creds_unref_ on the failure paths
ExtendCleanup(R) == Result(sd_bus_creds_unref(R.M, R.i), R.r, 0, R.i, R.q, R.oob)

\* lines 1121-1125: augment the copy unless copying has failed
ExtendAugment(R, c, mask, e) ==
    IF R.done THEN R
    ELSE bus_creds_add_more(R, mask, ExtendPid(c), ExtendTid(c), e)

\* lines 1127-1129: hand the new object out, or drop it on failure
ExtendReturn(R) ==
    IF R.r < 0 THEN ExtendCleanup(R)
    ELSE Result(R.M, 0, R.i, R.i, R.q, R.oob)

bus_creds_extend_by_pid(M, i, mask, e, oom) ==
    IF ExtendFastPath(M.objs[i], mask)
    THEN Result(sd_bus_creds_ref(M, i), 0, i, 0, <<>>, FALSE)
    ELSE IF oom = 1 THEN Result(M, 0 - ENOMEM, 0, 0, <<>>, FALSE)
    ELSE ExtendReturn(
           ExtendAugment(
             CopyOriginal([Run([M EXCEPT !.objs = Append(@, bus_creds_new)],
                               Len(M.objs) + 1, oom) EXCEPT !.na = 1],
                          M.objs[i], mask, 1),
             M.objs[i], mask, e))

(***************************************************************************)
(* sd_bus_creds_new_from_pid().                                            *)
(***************************************************************************)
\* getpid() of the caller
SelfPid == 1

\* A variant of the return that does not ask whether the process is alive.
NewFromPidReturnUnchecked(R, alive) ==
    IF R.r < 0 THEN Result(sd_bus_creds_unref(R.M, R.i), R.r, 0, R.i, R.q, R.oob)
    ELSE Result(R.M, 0, R.i, R.i, R.q, R.oob)

\* lines 147-157: drop the new object when augmentation failed or the
\* process is gone, else hand it out
NewFromPidReturn(R, alive) ==
    IF R.r < 0 THEN Result(sd_bus_creds_unref(R.M, R.i), R.r, 0, R.i, R.q, R.oob)
    ELSE IF ~alive THEN Result(sd_bus_creds_unref(R.M, R.i), 0 - ESRCH, 0, R.i, R.q, R.oob)
    ELSE Result(R.M, 0, R.i, R.i, R.q, R.oob)

sd_bus_creds_new_from_pid(M, pid0, mask, e, oom, alive) ==
    IF pid0 < 0 THEN Result(M, 0 - EINVAL, 0, 0, <<>>, FALSE)
    ELSE IF ~(mask \subseteq Fields) THEN Result(M, 0 - ENOTSUP, 0, 0, <<>>, FALSE)
    ELSE IF oom = 1 THEN Result(M, 0 - ENOMEM, 0, 0, <<>>, FALSE)
    ELSE NewFromPidReturn(
           bus_creds_add_more([Run([M EXCEPT !.objs = Append(@, bus_creds_new)],
                                   Len(M.objs) + 1, oom) EXCEPT !.na = 1],
                              mask \cup {AUGMENT},
                              IF pid0 = 0 THEN SelfPid ELSE pid0, 0, e),
           alive)

(***************************************************************************)
(* What the OS sources may answer.  Only the sources that a call can query *)
(* for its missing fields vary; the others have one fixed answer.          *)
(***************************************************************************)
Ok(v) == [r |-> 0, v |-> v]

Err(e) == [r |-> 0 - e, v |-> <<>>]

Answers(asked, values, errs) ==
    IF asked THEN {Ok(v) : v \in values} \cup {Err(e) : e \in errs}
    ELSE {Err(ENOENT)}

Strings == {<<v>> : v \in Vals}

\* the payloads of a "Uid:" or "Gid:" line
IdLines == {<<v, v, v, v>> : v \in Vals} \cup {<<1, 2, 1, 2>>, <<1, 1, Junk>>}

GroupLines == {<<>>, <<1>>, <<1, 2>>, <<1, Junk>>}

\* the payloads of a capability line: one byte per category
CapLines == {<<Blank, 0, 1>>, <<Blank, 15, 0>>, <<Blank, 0>>, <<Blank, 0, NonHex>>}

\* a line of the record: absent or one of its payloads when a field it
\* supplies is missing, else one fixed well-formed line
LineChoices(key, asked, payloads, fixed) ==
    IF asked THEN {<<>>} \cup {<<[key |-> key, toks |-> t]>> : t \in payloads}
    ELSE {<<[key |-> key, toks |-> fixed]>>}

\* the status records, lines in the order the kernel writes them
StatusLines(missing) ==
    {<<[key |-> "Name:", toks |-> <<>>]>> \o u \o g \o gr \o ci \o cp \o ce \o cb :
        u \in LineChoices("Uid:", missing \cap UidBits # {}, IdLines, <<2, 2, 2, 2>>),
        g \in LineChoices("Gid:", missing \cap GidBits # {}, IdLines, <<2, 2, 2, 2>>),
        gr \in LineChoices("Groups:", "SUPPLEMENTARY_GIDS" \in missing, GroupLines, <<2>>),
        ci \in LineChoices("CapInh:", "INHERITABLE_CAPS" \in missing, CapLines, <<Blank, 0, 2>>),
        cp \in LineChoices("CapPrm:", "PERMITTED_CAPS" \in missing, CapLines, <<Blank, 0, 2>>),
        ce \in LineChoices("CapEff:", "EFFECTIVE_CAPS" \in missing, CapLines, <<Blank, 0, 2>>),
        cb \in LineChoices("CapBnd:", "BOUNDING_CAPS" \in missing, CapLines, <<Blank, 0, 2>>)}

StatusAnswers(missing) ==
    IF missing \cap StatusBits = {} THEN {[open |-> ENOENT, lines |-> <<>>, rderr |-> 0]}
    ELSE {[open |-> x, lines |-> <<>>, rderr |-> 0] : x \in {ENOENT, EPERM, EACCES, ENOMEM}}
         \cup {[open |-> 0, lines |-> l, rderr |-> x] :
                 l \in StatusLines(missing), x \in {0, ESRCH}}

CmdlineBlobs == {<<>>, <<1, 0>>, <<1, 0, 2, 0>>}

Envs(missing, tid) ==
    [status : StatusAnswers(missing),
     starttime : Answers("PID_STARTTIME" \in missing, 0..MaxVal, {EPERM, EACCES, ENOENT}),
     label : Answers("SELINUX_CONTEXT" \in missing, Strings,
                     {ENOENT, EINVAL, EPERM, EACCES, ENOMEM}),
     comm : Answers("COMM" \in missing, Strings, {EPERM, EACCES, ENOENT, ENOMEM}),
     exe : Answers("EXE" \in missing, Strings, {EPERM, EACCES, ENOENT, ENOMEM}),
     cmdline : Answers("CMDLINE" \in missing, CmdlineBlobs, {EPERM, EACCES, ENOENT, ENOMEM}),
     tid_comm : Answers(tid > 0 /\ "TID_COMM" \in missing, Strings,
                        {EPERM, EACCES, ENOENT, ENOMEM}),
     cgroup : Answers(missing \cap CgroupBits # {}, Strings, {EPERM, EACCES, ENOENT, ENOMEM}),
     cgroup_root : Answers(missing \cap CgroupBits # {}, Strings, {EACCES, ENOMEM}),
     audit_session : Answers("AUDIT_SESSION_ID" \in missing, Vals,
                             {ENOTSUP, ENXIO, ENOENT, EPERM, EACCES, EIO}),
     audit_login : Answers("AUDIT_LOGIN_UID" \in missing, Vals,
                           {ENOTSUP, ENXIO, ENOENT, EPERM, EACCES, EIO})]

\* an environment in which every source answers with its first value
OkEnv ==
    [status |-> [open |-> 0,
                 lines |-> <<[key |-> "Name:", toks |-> <<>>],
                             [key |-> "Uid:", toks |-> <<1, 1, 1, 1>>],
                             [key |-> "Gid:", toks |-> <<1, 1, 1, 1>>],
                             [key |-> "Groups:", toks |-> <<1>>],
                             [key |-> "CapInh:", toks |-> <<Blank, 0, 1>>],
                             [key |-> "CapPrm:", toks |-> <<Blank, 0, 1>>],
                             [key |-> "CapEff:", toks |-> <<Blank, 0, 1>>],
                             [key |-> "CapBnd:", toks |-> <<Blank, 0, 1>>]>>,
                 rderr |-> 0],
     starttime |-> Ok(1), label |-> Ok(<<1>>), comm |-> Ok(<<1>>), exe |-> Ok(<<1>>),
     cmdline |-> Ok(<<1, 0>>), tid_comm |-> Ok(<<1>>), cgroup |-> Ok(<<1>>),
     cgroup_root |-> Ok(<<1>>), audit_session |-> Ok(1), audit_login |-> Ok(1)]

\* The inputs of a call that may query the OS: the answers of the sources
\* and the number of the allocation that fails.  Allocation failures are
\* tried against the environment in which every source answers.
Inputs(mask, have, tid) ==
    IF AUGMENT \notin mask THEN {[e |-> OkEnv, oom |-> 0]}
    ELSE {[e |-> e, oom |-> 0] : e \in Envs(mask \ have, tid)}
         \cup {[e |-> OkEnv, oom |-> k] : k \in 1..MaxOom}

\* what the collaborators of a deriving getter answer
DeriveAnswers == {[shift |-> 0, get |-> 0], [shift |-> 0 - ENOMEM, get |-> 0],
                  [shift |-> 0, get |-> 0 - ENXIO]}

(***************************************************************************)
(* The field families a behaviour works with: every mask handed to a call  *)
(* is a subset of the behaviour's pool, with or without AUGMENT.           *)
(***************************************************************************)
Pools ==
    { {"UID", "EUID"}, {"UID", "GID"}, {"SUID", "FSUID"}, {"EGID", "SGID"},
      {"FSGID", "SUPPLEMENTARY_GIDS"}, {"UID", "SUPPLEMENTARY_GIDS"},
      {"PID", "TID"}, {"TID", "TID_COMM"},
      {"PID_STARTTIME", "COMM"}, {"EXE", "CMDLINE"},
      {"CGROUP", "UNIT"}, {"USER_UNIT", "SLICE"}, {"SESSION", "OWNER_UID"},
      {"EFFECTIVE_CAPS", "PERMITTED_CAPS"}, {"INHERITABLE_CAPS", "BOUNDING_CAPS"},
      {"SELINUX_CONTEXT", "AUDIT_SESSION_ID"}, {"AUDIT_LOGIN_UID", "UNIQUE_NAME"},
      {"WELL_KNOWN_NAMES", "DESCRIPTION"}, {"SUID", "COMM"},
      {"CMDLINE", "AUDIT_LOGIN_UID"}, {"COMM", "TID_COMM"} }

Masks == SUBSET (pool \cup {AUGMENT})

(***************************************************************************)
(* The view: the creds embedded in a received message, filled in by the    *)
(* message parser with value v for every field of its mask.                *)
(***************************************************************************)
ViewBuffers(mask, v) ==
    (IF "SUPPLEMENTARY_GIDS" \in mask THEN <<[f |-> "supplementary_gids", d |-> <<v>>]>> ELSE <<>>)
    \o (IF "SELINUX_CONTEXT" \in mask THEN <<[f |-> "label", d |-> <<v>>]>> ELSE <<>>)
    \o (IF "COMM" \in mask THEN <<[f |-> "comm", d |-> <<v>>]>> ELSE <<>>)
    \o (IF "TID_COMM" \in mask THEN <<[f |-> "tid_comm", d |-> <<v>>]>> ELSE <<>>)
    \o (IF "EXE" \in mask THEN <<[f |-> "exe", d |-> <<v>>]>> ELSE <<>>)
    \o (IF "CMDLINE" \in mask THEN <<[f |-> "cmdline", d |-> <<v, 0>>]>> ELSE <<>>)
    \o (IF mask \cap CgroupBits # {}
        THEN <<[f |-> "cgroup", d |-> <<v>>], [f |-> "cgroup_root", d |-> <<v>>]>> ELSE <<>>)
    \o (IF mask \cap CapBits # {} THEN <<[f |-> "capability", d |-> <<v, v, v, v>>]>> ELSE <<>>)
    \o (IF "UNIQUE_NAME" \in mask THEN <<[f |-> "unique_name", d |-> <<v>>]>> ELSE <<>>)
    \o (IF "WELL_KNOWN_NAMES" \in mask THEN <<[f |-> "well_known_names", d |-> <<<<v>>>>]>> ELSE <<>>)
    \o (IF "DESCRIPTION" \in mask THEN <<[f |-> "description", d |-> <<0, 4, v>>]>> ELSE <<>>)

RECURSIVE PlaceBuffers(_, _, _, _)
PlaceBuffers(c, h, bufs, k) ==
    IF k > Len(bufs) THEN [c |-> c, heap |-> h]
    ELSE LET a == malloc(h, bufs[k].d)
         IN  PlaceBuffers([c EXCEPT ![bufs[k].f] = a.p], a.heap, bufs, k + 1)

ViewScalars(mask, v) ==
    [ZeroCreds EXCEPT
        !.mask = mask,
        !.uid = IF "UID" \in mask THEN v ELSE 0,
        !.euid = IF "EUID" \in mask THEN v ELSE 0,
        !.suid = IF "SUID" \in mask THEN v ELSE 0,
        !.fsuid = IF "FSUID" \in mask THEN v ELSE 0,
        !.gid = IF "GID" \in mask THEN v ELSE 0,
        !.egid = IF "EGID" \in mask THEN v ELSE 0,
        !.sgid = IF "SGID" \in mask THEN v ELSE 0,
        !.fsgid = IF "FSGID" \in mask THEN v ELSE 0,
        !.n_supplementary_gids = IF "SUPPLEMENTARY_GIDS" \in mask THEN 1 ELSE 0,
        !.pid = IF "PID" \in mask THEN v ELSE 0,
        !.tid = IF "TID" \in mask THEN v + 1 ELSE 0,
        !.pid_starttime = IF "PID_STARTTIME" \in mask THEN v * 10000 ELSE 0,
        !.cmdline_size = IF "CMDLINE" \in mask THEN 2 ELSE 0,
        !.capability_size = IF mask \cap CapBits # {} THEN 4 ELSE 0,
        !.audit_session_id = IF "AUDIT_SESSION_ID" \in mask THEN v ELSE 0,
        !.audit_login_uid = IF "AUDIT_LOGIN_UID" \in mask THEN v ELSE 0]

\* the first object: a view (owned = FALSE) or an owned set with one reference
InitCreds(mask, v, owned) ==
    LET b == PlaceBuffers(ViewScalars(mask, v), EmptyHeap, ViewBuffers(mask, v), 1)
    IN  [c |-> IF owned THEN [b.c EXCEPT !.allocated = TRUE, !.n_ref = 1] ELSE b.c,
         heap |-> b.heap]

(***************************************************************************)
(* The state machine.  held[i] counts the references the caller holds      *)
(* through handle i; calls counts the calls that may query the OS; last    *)
(* describes the call made by the last step.                               *)
(***************************************************************************)
Machine == [objs |-> objs, heap |-> heap, msg |-> msg]

NoCall ==
    [op |-> "none", c |-> 0, mask |-> {}, pid |-> 0, tid |-> 0, field |-> "",
     r |-> 0, ret |-> 0, n |-> 0, val |-> 0, q |-> <<>>, oob |-> FALSE,
     premask |-> {}, e |-> OkEnv, oom |-> 0, owned |-> FALSE, cached |-> FALSE]

Usable(i) == i \in 1..Len(objs) /\ held[i] > 0 /\ objs[i].live

\* A behaviour starts with one set (a view or a prefilled owned set), or with
\* none: then its first call creates one with sd_bus_creds_new_from_pid().
\* The first set knows the fields of a subset of the pool, all with the value
\* MaxVal, and the process id unless the pool is about the process id.
Init ==
    /\ pool \in Pools
    /\ \/ /\ objs = <<>>
          /\ heap = EmptyHeap
          /\ msg = [n_ref |-> 0, live |-> FALSE]
          /\ held = <<>>
       \/ \E m \in SUBSET pool, v \in {MaxVal}, owned \in BOOLEAN :
          \E mask \in {IF "PID" \in pool THEN m ELSE m \cup {"PID"}} :
            /\ objs = <<InitCreds(mask, v, owned).c>>
            /\ heap = InitCreds(mask, v, owned).heap
            /\ msg = IF owned THEN [n_ref |-> 0, live |-> FALSE]
                     ELSE [n_ref |-> 1, live |-> TRUE]
            /\ held = <<1>>
    /\ calls = 0
    /\ last = NoCall
    /\ thr = <<>>

\* the caller takes the outcome of a call that may have created an object
Install(res, handleGain) ==
    /\ objs' = res.M.objs
    /\ heap' = res.M.heap
    /\ msg' = res.M.msg
    /\ held' = [k \in 1..Len(res.M.objs) |->
                  (IF k <= Len(held) THEN held[k] ELSE 0)
                  + (IF k = handleGain THEN 1 ELSE 0)]

\* the process ids a caller asks about: an invalid one, itself, another process
NewPidArgs == {0 - 1, 0, MaxVal}

NewFromPid ==
    /\ calls < MaxCalls
    /\ objs = <<>>
    /\ \E pid \in NewPidArgs, mask \in Masks, alive \in BOOLEAN :
         /\ pid < 0 => (mask = {} /\ alive)
         /\ \E in \in (IF pid < 0 \/ AUGMENT \in mask \/ ~alive
                       THEN {[e |-> OkEnv, oom |-> 0]}
                       ELSE Inputs(mask \cup {AUGMENT}, {}, 0)) :
              \E res \in {sd_bus_creds_new_from_pid(Machine, pid, mask, in.e, in.oom, alive)} :
                /\ Install(res, res.ret)
                /\ last' = [NoCall EXCEPT !.op = "new_from_pid", !.mask = mask, !.pid = pid,
                                          !.r = res.r, !.ret = res.ret, !.n = res.n,
                                          !.q = res.q, !.oob = res.oob,
                                          !.e = in.e, !.oom = in.oom, !.tid = IF alive THEN 1 ELSE 0]
    /\ calls' = calls + 1
    /\ UNCHANGED <<pool, thr>>

\* the ids a caller passes name the process and thread the set describes
PidArgs(c) == IF "PID" \in c.mask THEN {0, c.pid} ELSE {0, 1}

TidArgs(c) == IF "TID" \in c.mask THEN {0, c.tid} ELSE {0, 2}

AddMore ==
    /\ calls < MaxCalls
    /\ \E i \in 1..Len(objs), mask \in Masks :
         /\ Usable(i)
         /\ objs[i].allocated
         /\ \E pid \in PidArgs(objs[i]), tid \in TidArgs(objs[i]) :
              \E in \in Inputs(mask, objs[i].mask, ResolveTid(objs[i], tid)) :
                \E R \in {bus_creds_add_more(Run(Machine, i, in.oom), mask, pid, tid, in.e)} :
                     /\ objs' = R.M.objs
                     /\ heap' = R.M.heap
                     /\ last' = [NoCall EXCEPT !.op = "add_more", !.c = i, !.mask = mask,
                                               !.pid = pid, !.tid = tid, !.r = R.r,
                                               !.q = R.q, !.oob = R.oob,
                                               !.premask = objs[i].mask,
                                               !.e = in.e, !.oom = in.oom]
    /\ calls' = calls + 1
    /\ UNCHANGED <<pool, msg, held, thr>>

Extend ==
    /\ calls < MaxCalls
    /\ \E i \in 1..Len(objs), mask \in Masks :
         /\ Usable(i)
         /\ IF ExtendFastPath(objs[i], mask) THEN held[i] <= MaxRef
            ELSE Len(objs) < MaxObjs
         /\ \E in \in Inputs(mask, objs[i].mask, ExtendTid(objs[i])) :
              \E res \in {bus_creds_extend_by_pid(Machine, i, mask, in.e, in.oom)} :
                   /\ Install(res, res.ret)
                   /\ last' = [NoCall EXCEPT !.op = "extend", !.c = i, !.mask = mask,
                                             !.r = res.r, !.ret = res.ret, !.n = res.n,
                                             !.q = res.q, !.oob = res.oob,
                                             !.premask = objs[i].mask,
                                             !.e = in.e, !.oom = in.oom]
    /\ calls' = calls + 1
    /\ UNCHANGED <<pool, thr>>

\* the getter of field f: [r, val, heap, c]
Getter(h, c, f, d, capability) ==
    CASE f = "UID" -> Out(sd_bus_creds_get_uid(c), h, c)
      [] f = "EUID" -> Out(sd_bus_creds_get_euid(c), h, c)
      [] f = "SUID" -> Out(sd_bus_creds_get_suid(c), h, c)
      [] f = "FSUID" -> Out(sd_bus_creds_get_fsuid(c), h, c)
      [] f = "GID" -> Out(sd_bus_creds_get_gid(c), h, c)
      [] f = "EGID" -> Out(sd_bus_creds_get_egid(c), h, c)
      [] f = "SGID" -> Out(sd_bus_creds_get_sgid(c), h, c)
      [] f = "FSGID" -> Out(sd_bus_creds_get_fsgid(c), h, c)
      [] f = "SUPPLEMENTARY_GIDS" -> Out(sd_bus_creds_get_supplementary_gids(c), h, c)
      [] f = "PID" -> Out(sd_bus_creds_get_pid(c), h, c)
      [] f = "TID" -> Out(sd_bus_creds_get_tid(c), h, c)
      [] f = "PID_STARTTIME" -> Out(sd_bus_creds_get_pid_starttime(c), h, c)
      [] f = "SELINUX_CONTEXT" -> Out(sd_bus_creds_get_selinux_context(c), h, c)
      [] f = "COMM" -> Out(sd_bus_creds_get_comm(c), h, c)
      [] f = "TID_COMM" -> Out(sd_bus_creds_get_tid_comm(c), h, c)
      [] f = "EXE" -> Out(sd_bus_creds_get_exe(c), h, c)
      [] f = "CMDLINE" -> sd_bus_creds_get_cmdline(h, c, d)
      [] f = "CGROUP" -> Out(sd_bus_creds_get_cgroup(c), h, c)
      [] f = "UNIT" -> sd_bus_creds_get_unit(h, c, d)
      [] f = "USER_UNIT" -> sd_bus_creds_get_user_unit(h, c, d)
      [] f = "SLICE" -> sd_bus_creds_get_slice(h, c, d)
      [] f = "SESSION" -> sd_bus_creds_get_session(h, c, d)
      [] f = "OWNER_UID" -> sd_bus_creds_get_owner_uid(h, c, d)
      [] f = "EFFECTIVE_CAPS" -> Out(sd_bus_creds_has_effective_cap(h, c, capability), h, c)
      [] f = "PERMITTED_CAPS" -> Out(sd_bus_creds_has_permitted_cap(h, c, capability), h, c)
      [] f = "INHERITABLE_CAPS" -> Out(sd_bus_creds_has_inheritable_cap(h, c, capability), h, c)
      [] f = "BOUNDING_CAPS" -> Out(sd_bus_creds_has_bounding_cap(h, c, capability), h, c)
      [] f = "AUDIT_SESSION_ID" -> Out(sd_bus_creds_get_audit_session_id(c), h, c)
      [] f = "AUDIT_LOGIN_UID" -> Out(sd_bus_creds_get_audit_login_uid(c), h, c)
      [] f = "UNIQUE_NAME" -> Out(sd_bus_creds_get_unique_name(c), h, c)
      [] f = "WELL_KNOWN_NAMES" -> Out(sd_bus_creds_get_well_known_names(c), h, c)
      [] f = "DESCRIPTION" -> sd_bus_creds_get_description(h, c, d)

\* the member that holds the memoized value of a derived field
MemoOf ==
    [UNIT |-> "unit", USER_UNIT |-> "user_unit", SLICE |-> "slice",
     SESSION |-> "session", CMDLINE |-> "cmdline_array",
     DESCRIPTION |-> "unescaped_description"]

\* the capability numbers a caller asks about
MaxCap == 8

CapArgs == {0 - 1, 0, MaxCap}

Get ==
    /\ calls < MaxCalls
    /\ \E i \in 1..Len(objs), f \in pool, d \in DeriveAnswers, capability \in CapArgs :
         /\ Usable(i)
         /\ f \notin CapBits => capability = 0
         /\ f \notin CgroupBits \cup {"CMDLINE", "DESCRIPTION"} => d = [shift |-> 0, get |-> 0]
         /\ \E g \in {Getter(heap, objs[i], f, d, capability)} :
                /\ objs' = [objs EXCEPT ![i] = g.c]
                /\ heap' = g.heap
                /\ last' = [NoCall EXCEPT !.op = "get", !.c = i, !.field = f, !.r = g.r,
                                          !.val = g.val, !.pid = capability,
                                          !.premask = objs[i].mask,
                                          !.cached = (f \in DOMAIN MemoOf
                                                      /\ objs[i][MemoOf[f]] # 0)]
    /\ UNCHANGED <<pool, msg, held, calls, thr>>

Ref ==
    /\ calls < MaxCalls
    /\ \E i \in 1..Len(objs) :
         /\ Usable(i)
         /\ held[i] <= MaxRef
         /\ \E M \in {sd_bus_creds_ref(Machine, i)} :
                /\ objs' = M.objs
                /\ heap' = M.heap
                /\ msg' = M.msg
         /\ held' = [held EXCEPT ![i] = @ + 1]
         /\ last' = [NoCall EXCEPT !.op = "ref", !.c = i, !.ret = i,
                                   !.owned = objs[i].allocated,
                                   !.premask = objs[i].mask]
    /\ UNCHANGED <<pool, calls, thr>>

Unref ==
    /\ calls < MaxCalls
    /\ \E i \in 1..Len(objs) :
         /\ Usable(i)
         /\ \E M \in {sd_bus_creds_unref(Machine, i)} :
                /\ objs' = M.objs
                /\ heap' = M.heap
                /\ msg' = M.msg
         /\ held' = [held EXCEPT ![i] = @ - 1]
         /\ last' = [NoCall EXCEPT !.op = "unref", !.c = i,
                                   !.owned = objs[i].allocated,
                                   !.premask = objs[i].mask]
    /\ UNCHANGED <<pool, calls, thr>>

Next == NewFromPid \/ AddMore \/ Extend \/ Get \/ Ref \/ Unref

Spec == Init /\ [][Next]_vars

(***************************************************************************)
(* Threads that share one owned set.  thr[t] is [pc, reg, holds, ops]: the *)
(* position of thread t in sd_bus_creds_ref() or sd_bus_creds_unref(), the *)
(* value of c->n_ref it has loaded, the references it holds and the calls  *)
(* it has made.  c->n_ref++ and c->n_ref-- are plain read-modify-writes of *)
(* a member of the object: a load and a store, with other threads' steps   *)
(* in between.  The test c->n_ref == 0 of line 85 loads the member again.  *)
(***************************************************************************)
Threads == 1..MaxThreads

Idle == [pc |-> "idle", reg |-> 0, holds |-> 1, ops |-> 0]

\* the shared set holds two strings and is referenced once by every thread
InitConc ==
    /\ pool = {"EXE", "CMDLINE"}
    /\ objs = <<[InitCreds({"PID", "EXE", "CMDLINE"}, MaxVal, TRUE).c
                   EXCEPT !.n_ref = MaxThreads]>>
    /\ heap = InitCreds({"PID", "EXE", "CMDLINE"}, MaxVal, TRUE).heap
    /\ msg = [n_ref |-> 0, live |-> FALSE]
    /\ held = <<MaxThreads>>
    /\ calls = 0
    /\ last = NoCall
    /\ thr = [t \in Threads |-> Idle]

\* where a thread goes when it enters a call: it touches freed memory, or the
\* assert(c->n_ref > 0) of lines 62 and 82 fails, or it loads the count
Enter(t, pc) ==
    IF ~objs[1].live THEN [thr[t] EXCEPT !.pc = "use_after_free"]
    ELSE IF ~(objs[1].n_ref > 0) THEN [thr[t] EXCEPT !.pc = "aborted"]
    ELSE [thr[t] EXCEPT !.pc = pc, !.reg = objs[1].n_ref, !.ops = @ + 1]

\* line 63, c->n_ref++: the load
RefLoad(t) ==
    /\ thr[t].pc = "idle"
    /\ thr[t].holds > 0
    /\ thr[t].holds <= MaxRef
    /\ thr[t].ops < MaxOps
    /\ thr' = [thr EXCEPT ![t] = Enter(t, "ref_store")]
    /\ UNCHANGED <<pool, objs, heap, msg, held, calls, last>>

\* line 63, c->n_ref++: the store
RefStore(t) ==
    /\ thr[t].pc = "ref_store"
    /\ IF objs[1].live
       THEN /\ objs' = [objs EXCEPT ![1].n_ref = thr[t].reg + 1]
            /\ thr' = [thr EXCEPT ![t].pc = "idle", ![t].holds = @ + 1]
            /\ held' = [held EXCEPT ![1] = @ + 1]
       ELSE /\ thr' = [thr EXCEPT ![t].pc = "use_after_free"]
            /\ UNCHANGED <<objs, held>>
    /\ UNCHANGED <<pool, heap, msg, calls, last>>

\* line 83, c->n_ref--: the load
UnrefLoad(t) ==
    /\ thr[t].pc = "idle"
    /\ thr[t].holds > 0
    /\ thr[t].ops < MaxOps
    /\ thr' = [thr EXCEPT ![t] = Enter(t, "unref_store")]
    /\ UNCHANGED <<pool, objs, heap, msg, held, calls, last>>

\* line 83, c->n_ref--: the store
UnrefStore(t) ==
    /\ thr[t].pc = "unref_store"
    /\ IF objs[1].live
       THEN /\ objs' = [objs EXCEPT ![1].n_ref = thr[t].reg - 1]
            /\ thr' = [thr EXCEPT ![t].pc = "unref_test", ![t].holds = @ - 1]
            /\ held' = [held EXCEPT ![1] = @ - 1]
       ELSE /\ thr' = [thr EXCEPT ![t].pc = "use_after_free"]
            /\ UNCHANGED <<objs, held>>
    /\ UNCHANGED <<pool, heap, msg, calls, last>>

\* lines 85-100: if the count is 0 now, free the members and the object;
\* freeing what another thread has freed is recorded in last
UnrefTest(t) ==
    /\ thr[t].pc = "unref_test"
    /\ thr' = [thr EXCEPT ![t].pc = "idle"]
    /\ IF ~objs[1].live
       THEN /\ last' = [NoCall EXCEPT !.op = "double_free", !.c = 1]
            /\ UNCHANGED <<objs, heap>>
       ELSE IF objs[1].n_ref = 0
       THEN /\ heap' = FreeAll(bus_creds_done(heap, objs[1]), objs[1], ValuePtrs)
            /\ objs' = [objs EXCEPT ![1] = DeadCreds]
            /\ last' = [NoCall EXCEPT !.op = "unref", !.c = 1, !.owned = TRUE]
       ELSE UNCHANGED <<objs, heap, last>>
    /\ UNCHANGED <<pool, msg, held, calls>>

NextConc ==
    \E t \in Threads :
        RefLoad(t) \/ RefStore(t) \/ UnrefLoad(t) \/ UnrefStore(t) \/ UnrefTest(t)

SpecConc == InitConc /\ [][NextConc]_vars

(***************************************************************************)
(* Threads that call the getters of derived fields of one owned set.       *)
(* thr[t] is [pc, f, reg, r, ops]: the position of thread t in the getter  *)
(* of field f, the pointer it has stored through its output argument, its  *)
(* return value and the calls it has made.  The getters take no lock: the  *)
(* test of the memoized pointer, the derivation that stores it and the     *)
(* load that returns it are separate accesses to the member, with other    *)
(* threads' steps in between.                                              *)
(***************************************************************************)
IdleGet == [pc |-> "idle", f |-> "", reg |-> 0, r |-> 0, ops |-> 0]

\* the shared set holds a group path and a command line, neither derived yet
InitMemo ==
    /\ pool = {"UNIT", "CMDLINE"}
    /\ objs = <<[InitCreds({"PID", "UNIT", "CMDLINE"}, MaxVal, TRUE).c
                   EXCEPT !.n_ref = MaxThreads]>>
    /\ heap = InitCreds({"PID", "UNIT", "CMDLINE"}, MaxVal, TRUE).heap
    /\ msg = [n_ref |-> 0, live |-> FALSE]
    /\ held = <<MaxThreads>>
    /\ calls = 0
    /\ last = NoCall
    /\ thr = [t \in Threads |-> IdleGet]

\* lines 369 and 494: the test of the memoized pointer
MemoTest(t) ==
    /\ thr[t].pc = "idle"
    /\ thr[t].ops < MaxOps
    /\ \E f \in pool :
          thr' = [thr EXCEPT ![t] = [pc |-> IF objs[1][MemoOf[f]] # 0 THEN "load"
                                            ELSE "derive",
                                     f |-> f, reg |-> 0, r |-> 0, ops |-> @.ops + 1]]
    /\ UNCHANGED <<pool, objs, heap, msg, held, calls, last>>

\* lines 370-378: cg_shift_path(), then cg_path_get_unit() stores the new
\* string in c->unit; lines 495-497: the result of strv_parse_nulstr(),
\* NULL included, is stored in c->cmdline_array
MemoDerive(t) ==
    /\ thr[t].pc = "derive"
    /\ \E d \in DeriveAnswers :
          IF thr[t].f = "UNIT"
          THEN IF d.shift < 0
               THEN /\ thr' = [thr EXCEPT ![t].pc = "idle", ![t].r = d.shift]
                    /\ UNCHANGED <<objs, heap>>
               ELSE \E g \in {cg_path_get_unit(heap, cg_shift_path(heap, objs[1]), d)} :
                      IF g.r < 0
                      THEN /\ thr' = [thr EXCEPT ![t].pc = "idle", ![t].r = g.r]
                           /\ UNCHANGED <<objs, heap>>
                      ELSE /\ thr' = [thr EXCEPT ![t].pc = "load"]
                           /\ objs' = [objs EXCEPT ![1].unit = g.p]
                           /\ heap' = g.heap
          ELSE \E a \in {IF d.get < 0 THEN [heap |-> heap, p |-> 0]
                         ELSE malloc(heap, strv_parse_nulstr(Deref(heap, objs[1].cmdline),
                                                            objs[1].cmdline_size))} :
                 /\ objs' = [objs EXCEPT ![1].cmdline_array = a.p]
                 /\ heap' = a.heap
                 /\ thr' = IF a.p = 0
                           THEN [thr EXCEPT ![t].pc = "idle", ![t].r = 0 - ENOMEM]
                           ELSE [thr EXCEPT ![t].pc = "load"]
    /\ UNCHANGED <<pool, msg, held, calls, last>>

\* lines 381 and 500: the load of the memoized pointer that the call returns
MemoLoad(t) ==
    /\ thr[t].pc = "load"
    /\ thr' = [thr EXCEPT ![t].pc = "idle", ![t].reg = objs[1][MemoOf[thr[t].f]]]
    /\ UNCHANGED <<pool, objs, heap, msg, held, calls, last>>

NextMemo == \E t \in Threads : MemoTest(t) \/ MemoDerive(t) \/ MemoLoad(t)

SpecMemo == InitMemo /\ [][NextMemo]_vars

(***************************************************************************)
(* The capability decoder on its own: the capability lines of one status   *)
(* record are decoded into a new owned set, each category at most once, as *)
(* the loop over the record does.  The kernel writes the capability lines  *)
(* of a record with one width, so a later line has as many hex pairs as    *)
(* the line that sized the vector.                                         *)
(***************************************************************************)
\* the category of a capability field
CapOffsetOf ==
    [EFFECTIVE_CAPS |-> CAP_OFFSET_EFFECTIVE, PERMITTED_CAPS |-> CAP_OFFSET_PERMITTED,
     INHERITABLE_CAPS |-> CAP_OFFSET_INHERITABLE, BOUNDING_CAPS |-> CAP_OFFSET_BOUNDING]

\* the characters of the texts: two hex digits and a character that is none
HexChars == {1, 10, NonHex}

\* the line of a process without capabilities: "\t0000000000000000"
ZeroCapText == <<Blank>> \o Zeros(16)

\* the texts: up to MaxHex characters, with or without a leading blank, and
\* the line of a process without capabilities
CapTexts ==
    UNION {{t, <<Blank>> \o t} : t \in UNION {[1..n -> HexChars] : n \in 0..MaxHex}}
    \cup {ZeroCapText}

InitCaps ==
    /\ pool = CapBits
    /\ objs = <<bus_creds_new>>
    /\ heap = EmptyHeap
    /\ msg = [n_ref |-> 0, live |-> FALSE]
    /\ held = <<1>>
    /\ calls = 0
    /\ last = NoCall
    /\ thr = <<>>

\* the loop over the record meets the line of a capability field that is
\* missing: parse_caps() and, on success, the field's bit
DecodeCaps ==
    /\ calls < MaxDecodes
    /\ \E bit \in CapBits \ objs[1].mask, text \in CapTexts :
         /\ objs[1].capability # 0 =>
               Len(SkipBlanks(text)) \div 2 = objs[1].capability_size \div 4
         /\ \E R \in {ParseCapLine(Run(Machine, 1, 0), CapOffsetOf[bit], bit, text)} :
              /\ objs' = R.M.objs
              /\ heap' = R.M.heap
              /\ last' = [NoCall EXCEPT !.op = "parse_caps", !.c = 1, !.field = bit,
                                        !.r = R.r, !.q = text, !.oob = R.oob,
                                        !.premask = objs[1].mask, !.owned = TRUE]
    /\ calls' = calls + 1
    /\ UNCHANGED <<pool, msg, held, thr>>

\* the capability numbers asked about once the record is decoded
CapQueries == {0, 1, MaxCap - 1, MaxCap, MaxCap + 1, 2 * MaxCap, 63, 64}

\* the caller asks whether the set has a capability of a category whose bit
\* is set; the set was handed out, so no line is decoded after that
QueryCap ==
    /\ \E f \in objs[1].mask \cap CapBits, capability \in CapQueries :
         \E g \in {Getter(heap, objs[1], f, [shift |-> 0, get |-> 0], capability)} :
            last' = [NoCall EXCEPT !.op = "has_cap", !.c = 1, !.field = f,
                                   !.pid = capability, !.r = g.r,
                                   !.premask = objs[1].mask, !.owned = TRUE]
    /\ calls' = MaxDecodes
    /\ UNCHANGED <<pool, objs, heap, msg, held, thr>>

NextCaps == DecodeCaps \/ QueryCap

SpecCaps == InitCaps /\ [][NextCaps]_vars

(***************************************************************************)
(* The capability decoder on a vector that it has not sized itself: the    *)
(* set is the copy that bus_creds_extend_by_pid() has made of a set with   *)
(* one capability field (lines 1073-1080 duplicate the vector and keep its *)
(* size), and the augmentation of the copy decodes the lines of the status *)
(* record for the fields that are missing.  The lines of the record have   *)
(* one width; nothing relates it to the size of the copied vector.  A      *)
(* store outside the vector is undefined behaviour: the process goes on,   *)
(* or it is aborted.                                                       *)
(***************************************************************************)
\* the copy holds capability field f in a vector of 4 * sz bytes
SizedCreds(f, sz) ==
    [bus_creds_new EXCEPT !.mask = {"PID", f}, !.pid = MaxVal,
                          !.capability = 1, !.capability_size = 4 * sz]

InitSized ==
    /\ pool = CapBits
    /\ \E f \in CapBits, sz \in 1..(MaxHex \div 2) :
          /\ objs = <<SizedCreds(f, sz)>>
          /\ heap = [EmptyHeap EXCEPT ![1] = [live |-> TRUE,
                                               data |-> [k \in 1..(4 * sz) |-> MaxVal]]]
    /\ msg = [n_ref |-> 0, live |-> FALSE]
    /\ held = <<1>>
    /\ calls = 0
    /\ last = NoCall
    /\ thr = <<>>

\* the loop over the record meets the line of a capability field that is
\* missing; a line follows only a line that was decoded, and has its width
DecodeSized ==
    /\ calls < MaxDecodes
    /\ last.r = 0
    /\ \E bit \in CapBits \ objs[1].mask, text \in CapTexts :
         /\ last.op = "parse_caps" => Len(SkipBlanks(text)) = Len(SkipBlanks(last.q))
         /\ \E R \in {ParseCapLine(Run(Machine, 1, 0), CapOffsetOf[bit], bit, text)} :
              \E r \in (IF R.oob THEN {R.r, Aborted} ELSE {R.r}) :
                /\ objs' = R.M.objs
                /\ heap' = R.M.heap
                /\ last' = [NoCall EXCEPT !.op = "parse_caps", !.c = 1, !.field = bit,
                                          !.r = r, !.q = text, !.oob = R.oob,
                                          !.premask = objs[1].mask, !.owned = TRUE]
    /\ calls' = calls + 1
    /\ UNCHANGED <<pool, msg, held, thr>>

NextSized == DecodeSized

SpecSized == InitSized /\ [][NextSized]_vars

(***************************************************************************)
(* Properties.  A step of a call is recognised by the call counter and the *)
(* description of the call in last'.                                       *)
(***************************************************************************)
ExtendStep == calls' = calls + 1 /\ last'.op = "extend"

AddMoreStep == calls' = calls + 1 /\ last'.op = "add_more"

\* the member that stores a plain field
ScalarOf ==
    [UID |-> "uid", EUID |-> "euid", SUID |-> "suid", FSUID |-> "fsuid",
     GID |-> "gid", EGID |-> "egid", SGID |-> "sgid", FSGID |-> "fsgid",
     PID |-> "pid", TID |-> "tid", PID_STARTTIME |-> "pid_starttime",
     AUDIT_SESSION_ID |-> "audit_session_id", AUDIT_LOGIN_UID |-> "audit_login_uid"]

\* the member that points to the value of a variable-length field
StringOf ==
    [SELINUX_CONTEXT |-> "label", COMM |-> "comm", TID_COMM |-> "tid_comm",
     EXE |-> "exe", UNIQUE_NAME |-> "unique_name",
     WELL_KNOWN_NAMES |-> "well_known_names", DESCRIPTION |-> "description"]

\* the bytes of one category of the capability vector
CapBytes(h, c, offset) ==
    SubSeq(Deref(h, c.capability),
           offset * (c.capability_size \div 4) + 1,
           (offset + 1) * (c.capability_size \div 4))

\* the value an object stores for field f, contents of buffers included
StoredValue(h, c, f) ==
    IF f \in DOMAIN ScalarOf THEN <<c[ScalarOf[f]]>>
    ELSE IF f \in DOMAIN StringOf THEN <<Deref(h, c[StringOf[f]])>>
    ELSE IF f = "SUPPLEMENTARY_GIDS"
         THEN <<c.n_supplementary_gids, Deref(h, c.supplementary_gids)>>
    ELSE IF f = "CMDLINE" THEN <<c.cmdline_size, Deref(h, c.cmdline)>>
    ELSE IF f \in CgroupBits THEN <<Deref(h, c.cgroup), Deref(h, c.cgroup_root)>>
    ELSE <<c.capability_size, CapBytes(h, c, CapOffsetOf[f])>>

\* the short way of extend as the specification words it: every bit of the
\* target mask (the AUGMENT flag is one of them) is set in the set's mask, or
\* the AUGMENT flag is absent from the target mask
ShortWay(setmask, mask) == mask \subseteq setmask \/ AUGMENT \notin mask

\* C1: every getter returns -ENODATA exactly when the bit of its own field
\* is unset in the mask, for every live set and valid arguments.  The code
\* violates it: sd_bus_creds_get_gid() tests the UID bit.
C1_NoDataIffBitUnset ==
    \A i \in 1..Len(objs) :
        objs[i].live =>
            \A f \in Fields, d \in DeriveAnswers :
                (Getter(heap, objs[i], f, d, 0).r = 0 - ENODATA) <=> (f \notin objs[i].mask)

\* C2: on the short way extend returns 0 and a handle to the very object it
\* was given; no object is created, no source is queried, the heap and every
\* member of the object stay as they were, and one reference is acquired:
\* n_ref + 1 for an owned set, one reference to the message for a view.
C2_ExtendShortWay ==
    [][(ExtendStep /\ ShortWay(objs[last'.c].mask, last'.mask)) =>
          /\ last'.r = 0
          /\ last'.ret = last'.c
          /\ last'.n = 0
          /\ last'.q = <<>>
          /\ Len(objs') = Len(objs)
          /\ heap' = heap
          /\ held' = [held EXCEPT ![last'.c] = @ + 1]
          /\ IF objs[last'.c].allocated
             THEN /\ objs' = [objs EXCEPT ![last'.c].n_ref = @ + 1]
                  /\ msg' = msg
             ELSE /\ objs' = objs
                  /\ msg' = [msg EXCEPT !.n_ref = @ + 1]]_vars

\* C2's case: an owned set was extended by a non-empty mask it already
\* covers, and now has two references.
C2_Witness ==
    /\ last.op = "extend"
    /\ last.r = 0
    /\ last.ret = last.c
    /\ last.mask # {}
    /\ last.mask \subseteq last.premask
    /\ objs[last.c].allocated
    /\ objs[last.c].n_ref = 2

\* C3: when extend succeeds the long way, every field set in the original's
\* mask and in the target mask is set in the returned set with the
\* original's value, whatever the sources answered.  The code violates it:
\* the "Uid:" and "Gid:" lines overwrite the copied ids.
C3_ExtendKeepsKnownValues ==
    [][(ExtendStep /\ ~ShortWay(objs[last'.c].mask, last'.mask) /\ last'.r = 0) =>
          \A f \in objs[last'.c].mask \cap last'.mask :
              /\ f \in objs'[last'.ret].mask
              /\ StoredValue(heap', objs'[last'.ret], f)
                   = StoredValue(heap, objs[last'.c], f)]_vars

\* C4: a call of bus_creds_add_more() leaves the stored value of every field
\* other than TID whose bit was set before the call as it was.  The code
\* violates it: a "Uid:" line read for a missing id overwrites all four.
C4_AugmentationKeepsValues ==
    [][AddMoreStep =>
          \A f \in objs[last'.c].mask \ {"TID"} :
              /\ f \in objs'[last'.c].mask
              /\ StoredValue(heap', objs'[last'.c], f)
                   = StoredValue(heap, objs[last'.c], f)]_vars

\* C5: bus_creds_add_more() called with tid <= 0 on a set whose TID bit is
\* set leaves the stored thread id as it was.  The code violates it: line
\* 676 takes the process id for the thread id.
C5_TidKept ==
    [][(AddMoreStep /\ last'.tid <= 0 /\ "TID" \in objs[last'.c].mask) =>
          objs'[last'.c].tid = objs[last'.c].tid]_vars

\* C6: the long way of extend, succeeding or failing, leaves the original as
\* it was: its mask, members, memoized values, the contents of its buffers
\* and its reference count (n_ref, or the message's for a view); a returned
\* set is another object, owned, with one reference, and none of its
\* pointers is a pointer of the original.
C6_ExtendLeavesOriginal ==
    [][(ExtendStep /\ ~ShortWay(objs[last'.c].mask, last'.mask)) =>
          /\ objs'[last'.c] = objs[last'.c]
          /\ msg' = msg
          /\ held'[last'.c] = held[last'.c]
          /\ \A fld \in AllPtrs :
                objs[last'.c][fld] # 0 => heap'[objs[last'.c][fld]] = heap[objs[last'.c][fld]]
          /\ last'.r < 0 => last'.ret = 0
          /\ last'.r >= 0 =>
                /\ last'.ret \in (1..Len(objs')) \ {last'.c}
                /\ objs'[last'.ret].live
                /\ objs'[last'.ret].allocated
                /\ objs'[last'.ret].n_ref = 1
                /\ \A f1 \in AllPtrs, f2 \in AllPtrs :
                      objs'[last'.ret][f1] # 0 => objs'[last'.ret][f1] # objs[last'.c][f2]]_vars

\* C6's case: extend went the long way, queried the OS and returned a new
\* set that holds a copy of a variable-length value of the original.
C6_Witness ==
    /\ last.op = "extend"
    /\ last.r = 0
    /\ last.ret # last.c
    /\ last.q # <<>>
    /\ \E fld \in ValuePtrs : objs[last.c][fld] # 0 /\ objs[last.ret][fld] # 0

\* the fields whose source answered with a value, among those that one
\* source alone supplies
Answered(e) ==
    {f \in {"PID_STARTTIME", "SELINUX_CONTEXT", "COMM", "EXE",
            "AUDIT_SESSION_ID", "AUDIT_LOGIN_UID"} :
        CASE f = "PID_STARTTIME" -> e.starttime.r >= 0
          [] f = "SELINUX_CONTEXT" -> e.label.r >= 0
          [] f = "COMM" -> e.comm.r >= 0
          [] f = "EXE" -> e.exe.r >= 0
          [] f = "AUDIT_SESSION_ID" -> e.audit_session.r >= 0
          [] f = "AUDIT_LOGIN_UID" -> e.audit_login.r >= 0}

C8_ExtendFailureLeaksNothing ==
    [][(ExtendStep /\ ~ShortWay(objs[last'.c].mask, last'.mask) /\ last'.r < 0) =>
          /\ last'.ret = 0
          /\ last'.oom > 0 => last'.r = 0 - ENOMEM
          /\ heap' = heap
          /\ msg' = msg
          /\ objs' = (IF last'.n = 0 THEN objs ELSE Append(objs, DeadCreds))
          /\ held' = (IF last'.n = 0 THEN held ELSE Append(held, 0))
          /\ \A k \in (Len(objs) + 1)..Len(objs') : ~objs'[k].live]_vars

\* C8's case: the augmentation of a new set that holds a copied buffer
\* failed on an answer of the OS, and the set is gone.
C8_Witness ==
    /\ last.op = "extend"
    /\ last.r < 0
    /\ last.n # 0
    /\ last.q # <<>>
    /\ last.oom = 0
    /\ ~objs[last.n].live
    /\ \E fld \in ValuePtrs : objs[last.c][fld] # 0

\* C9: bus_creds_add_more() returns 0, queries no source and changes
\* nothing, pid and tid included, when the AUGMENT flag is absent from the
\* target mask, or no bit of the target mask is missing, or neither the
\* argument nor a stored PID field gives a positive process id.
C9_AugmentationNoOp ==
    [][(/\ AddMoreStep
        /\ \/ AUGMENT \notin last'.mask
           \/ last'.mask \ objs[last'.c].mask = {}
           \/ (last'.pid <= 0 /\ ~("PID" \in objs[last'.c].mask /\ objs[last'.c].pid > 0))) =>
          /\ last'.r = 0
          /\ last'.q = <<>>
          /\ objs' = objs
          /\ heap' = heap
          /\ msg' = msg]_vars

\* C9's case: augmentation was on and fields were missing, but there was no
\* process id to ask about; a thread id was passed and not recorded.
C9_Witness ==
    /\ last.op = "add_more"
    /\ AUGMENT \in last.mask
    /\ (last.mask \cap Fields) \ last.premask # {}
    /\ last.pid <= 0
    /\ last.tid > 0
    /\ "PID" \notin last.premask
    /\ last.r = 0
    /\ objs[last.c].mask = last.premask

\* the bits a line of the status record supplies
LineBits(key) ==
    CASE key = "Uid:" -> UidBits
      [] key = "Gid:" -> GidBits
      [] key = "Groups:" -> {"SUPPLEMENTARY_GIDS"}
      [] OTHER -> {}

\* the members a "Uid:" or "Gid:" line fills, in the order of its numbers
LineMembers(key) ==
    IF key = "Uid:"
    THEN <<[bit |-> "UID", m |-> "uid"], [bit |-> "EUID", m |-> "euid"],
           [bit |-> "SUID", m |-> "suid"], [bit |-> "FSUID", m |-> "fsuid"]>>
    ELSE <<[bit |-> "GID", m |-> "gid"], [bit |-> "EGID", m |-> "egid"],
           [bit |-> "SGID", m |-> "sgid"], [bit |-> "FSGID", m |-> "fsgid"]>>

\* a line of ids holds four numbers, a line of groups holds numbers only
WellFormed(line) ==
    IF line.key = "Groups:" THEN \A k \in 1..Len(line.toks) : line.toks[k] # Junk
    ELSE Len(line.toks) >= 4 /\ \A k \in 1..4 : line.toks[k] # Junk

\* the requested lines of the record that are malformed
Malformed(lines, missing) ==
    {k \in 1..Len(lines) : LineBits(lines[k].key) \cap missing # {} /\ ~WellFormed(lines[k])}

\* C10: when the status record was opened and a requested "Uid:", "Gid:" or
\* "Groups:" line is malformed, bus_creds_add_more() returns -EIO, the
\* missing bits of the first malformed line stay unset, and every requested
\* "Uid:" or "Gid:" line before it has set its missing bits and stored its
\* numbers.
C10_CorruptRecord ==
    (/\ last.op = "add_more"
     /\ last.q # <<>>
     /\ Head(last.q) = "status"
     /\ last.e.status.open = 0
     /\ Malformed(last.e.status.lines, last.mask \ last.premask) # {}) =>
        \E k \in {MinOf(Malformed(last.e.status.lines, last.mask \ last.premask))} :
            /\ last.r = 0 - EIO
            /\ LineBits(last.e.status.lines[k].key) \cap (last.mask \ last.premask)
                 \cap objs[last.c].mask = {}
            /\ \A j \in 1..(k - 1) :
                  \E line \in {last.e.status.lines[j]} :
                      (line.key \in {"Uid:", "Gid:"}
                       /\ LineBits(line.key) \cap (last.mask \ last.premask) # {}) =>
                          /\ (LineBits(line.key) \cap last.mask) \subseteq objs[last.c].mask
                          /\ \A n \in 1..4 :
                                LineMembers(line.key)[n].bit \in (last.mask \ last.premask)
                                  => objs[last.c][LineMembers(line.key)[n].m] = line.toks[n]

\* C10's case: the "Uid:" line was parsed, the "Groups:" line after it was
\* malformed; the call failed with -EIO and the set holds the uid.
C10_Witness ==
    /\ last.op = "add_more"
    /\ last.r = 0 - EIO
    /\ "UID" \in objs[last.c].mask \ last.premask
    /\ "SUPPLEMENTARY_GIDS" \in last.mask \ objs[last.c].mask
    /\ \E k \in 1..Len(last.e.status.lines) :
          /\ last.e.status.lines[k].key = "Groups:"
          /\ ~WellFormed(last.e.status.lines[k])

\* the sources bus_creds_add_more() queries after the status record, in the
\* order of the code, each with the bits that make it query
LaterSources ==
    << [src |-> "starttime", bits |-> {"PID_STARTTIME"}],
       [src |-> "label", bits |-> {"SELINUX_CONTEXT"}],
       [src |-> "comm", bits |-> {"COMM"}],
       [src |-> "exe", bits |-> {"EXE"}],
       [src |-> "cmdline", bits |-> {"CMDLINE"}],
       [src |-> "tid_comm", bits |-> {"TID_COMM"}],
       [src |-> "cgroup", bits |-> CgroupBits],
       [src |-> "audit_session", bits |-> {"AUDIT_SESSION_ID"}],
       [src |-> "audit_login", bits |-> {"AUDIT_LOGIN_UID"}] >>

\* the call described by last was given a process id to ask about
HadPid == last.pid > 0 \/ "PID" \in last.premask

HadTid == last.tid > 0 \/ "TID" \in last.premask

\* the later sources the call described by last has to query
LaterAsked ==
    SelectSeq(LaterSources,
              LAMBDA s : /\ s.bits \cap (last.mask \ last.premask) # {}
                         /\ s.src = "tid_comm" => HadTid)

\* the call described by last is an augmentation that needs the status record
NeedsStatus ==
    /\ last.op = "add_more"
    /\ AUGMENT \in last.mask
    /\ (last.mask \ last.premask) \cap StatusBits # {}
    /\ HadPid

\* C11: when bus_creds_add_more() needs the status record, ENOENT on opening
\* it makes the call return -ESRCH at once; EPERM or EACCES on opening it is
\* not fatal: no bit of the status record is gained, the call goes on to
\* the first later source it has to query, and it returns 0 when every
\* later source it has to query (the root prefix after the raw group path
\* included) answers with a value, with the bits of those values set.
C11_StatusOpenPolicy ==
    NeedsStatus =>
        /\ last.q # <<>> /\ Head(last.q) = "status"
        /\ last.e.status.open = ENOENT =>
              /\ last.r = 0 - ESRCH
              /\ last.q = <<"status">>
              /\ objs[last.c].mask \cap StatusBits = last.premask \cap StatusBits
        /\ last.e.status.open \in {EPERM, EACCES} =>
              /\ objs[last.c].mask \cap StatusBits = last.premask \cap StatusBits
              /\ last.r # 0 - last.e.status.open
              /\ LaterAsked # <<>> =>
                    /\ Len(last.q) >= 2
                    /\ last.q[2] = LaterAsked[1].src
              /\ (/\ \A k \in 1..Len(LaterAsked) : last.e[LaterAsked[k].src].r >= 0
                  /\ last.e.cgroup.r >= 0 => last.e.cgroup_root.r >= 0) =>
                    /\ last.r = 0
                    /\ (Answered(last.e) \cap last.mask) \subseteq objs[last.c].mask

\* C11's case: the status record could not be opened for lack of permission;
\* the call went on, stored the process name and returned 0 without the
\* saved uid.
C11_Witness ==
    /\ NeedsStatus
    /\ last.e.status.open \in {EPERM, EACCES}
    /\ last.r = 0
    /\ "SUID" \in last.mask \ objs[last.c].mask
    /\ "COMM" \in objs[last.c].mask \ last.premask
    /\ objs[last.c].comm # 0
\* the bits a source supplies
SourceBits(src) ==
    CASE src = "status" -> StatusBits
      [] src = "cgroup_root" -> CgroupBits
      [] OTHER -> UNION {LaterSources[k].bits : k \in {j \in 1..Len(LaterSources) :
                                                        LaterSources[j].src = src}}

\* the answer of a source as an errno value, 0 for a value
SourceErr(e, src) ==
    IF src = "status" THEN (IF e.status.open # 0 THEN 0 - e.status.open ELSE 0 - e.status.rderr)
    ELSE e[src].r

\* C12: bus_creds_add_more() never returns -EPERM or -EACCES, and a source
\* that answered with one of them has set none of its missing bits.  The
\* code violates it: a failure of cg_get_root_path() is returned whatever it
\* is (lines 915-917).
C12_NoPermissionFailure ==
    last.op = "add_more" =>
        /\ last.r \notin PermissionErrors
        /\ \A k \in 1..Len(last.q) :
              SourceErr(last.e, last.q[k]) \in PermissionErrors =>
                  SourceBits(last.q[k]) \cap (objs[last.c].mask \ last.premask) = {}
\* the buffers an object points to
BuffersOf(c) == {c[fld] : fld \in AllPtrs} \ {0}

\* the reference count of every live owned set is the number of references
\* held on it and is positive; no reference is held on a freed object
OwnedCounts ==
    \A i \in 1..Len(objs) :
        /\ (objs[i].live /\ objs[i].allocated) =>
              (objs[i].n_ref = held[i] /\ objs[i].n_ref > 0)
        /\ ~objs[i].live => held[i] = 0

\* C13: an owned set is created with n_ref 1; while it is live its n_ref is
\* 1 + acquires - releases (the references held) and positive; an acquire
\* adds one and a release that leaves references takes one and frees
\* nothing; the object and all its buffers, memoized ones included, are
\* freed by the release that takes the last reference, and an owned set that
\* existed is freed by no other step.
C13_OwnedRefcount ==
    /\ []OwnedCounts
    /\ [][/\ \A k \in (Len(objs) + 1)..Len(objs') :
                objs'[k].live => (objs'[k].allocated /\ objs'[k].n_ref = 1)
          /\ \A i \in 1..Len(objs) :
                (objs[i].live /\ objs[i].allocated /\ ~objs'[i].live) =>
                    (last'.op = "unref" /\ last'.c = i /\ objs[i].n_ref = 1)
          /\ (last'.op = "ref" /\ last'.owned) =>
                /\ objs' = [objs EXCEPT ![last'.c].n_ref = @ + 1]
                /\ heap' = heap
          /\ (last'.op = "unref" /\ last'.owned) =>
                IF objs[last'.c].n_ref = 1
                THEN /\ ~objs'[last'.c].live
                     /\ \A b \in BufIds :
                           heap'[b] = IF b \in BuffersOf(objs[last'.c]) THEN FreeBuf ELSE heap[b]
                ELSE /\ objs' = [objs EXCEPT ![last'.c].n_ref = @ - 1]
                     /\ heap' = heap]_vars

\* C13's case: the last reference of an owned set that held a
\* variable-length value was released; the object and its buffers are gone.
C13_Witness ==
    /\ last.op = "unref"
    /\ last.owned
    /\ ~objs[last.c].live
    /\ held[last.c] = 0
    /\ "DESCRIPTION" \in last.premask
    /\ heap = EmptyHeap
\* a live view has no count of its own: its n_ref stays 0, and its message
\* is live and counts the references held through the view
ViewCounts ==
    \A i \in 1..Len(objs) :
        (objs[i].live /\ ~objs[i].allocated) =>
            (objs[i].n_ref = 0 /\ msg.live /\ msg.n_ref = held[i])

\* C14: an acquire on a view adds exactly one reference to its message and a
\* release takes exactly one; neither changes a member of the view (its
\* n_ref stays 0) or frees a buffer while the message has references left;
\* the view's memory goes only with the message, when the message's own
\* count reaches 0.
C14_ViewRouting ==
    /\ []ViewCounts
    /\ [][/\ (last'.op = "ref" /\ ~last'.owned) =>
                /\ msg' = [msg EXCEPT !.n_ref = @ + 1]
                /\ objs' = objs
                /\ heap' = heap
          /\ (last'.op = "unref" /\ ~last'.owned) =>
                /\ msg'.n_ref = msg.n_ref - 1
                /\ msg'.live = (msg.n_ref > 1)
                /\ msg'.live => (objs' = objs /\ heap' = heap)
          /\ \A i \in 1..Len(objs) :
                (objs[i].live /\ ~objs[i].allocated /\ ~objs'[i].live) => ~msg'.live]_vars

\* C14's case: a view was acquired and then released; its message has the
\* one reference it started with, and the view and its buffers are as they
\* were.
C14_Witness ==
    /\ last.op = "unref"
    /\ ~last.owned
    /\ objs[last.c].live
    /\ ~objs[last.c].allocated
    /\ objs[last.c].n_ref = 0
    /\ msg.n_ref = 1
    /\ BuffersOf(objs[last.c]) # {}
    /\ \A b \in BuffersOf(objs[last.c]) : heap[b].live
\* the sum of the references the threads hold
RECURSIVE HoldsFrom(_)
HoldsFrom(t) == IF t > MaxThreads THEN 0 ELSE thr[t].holds + HoldsFrom(t + 1)

\* C15: with threads acquiring and releasing the same owned set, each
\* releasing only references it holds, no update of the count is lost: when
\* no thread is inside a call the count of the live object is the number of
\* references held; the object is not freed while a reference is held, no
\* thread touches it after it was freed, and it is not freed twice.  The
\* code violates it: c->n_ref++ and c->n_ref-- are not atomic, and the test
\* for 0 reads the count again.
C15_AtomicRefcount ==
    /\ last.op # "double_free"
    /\ \A t \in Threads : thr[t].pc \notin {"use_after_free", "aborted"}
    /\ ~objs[1].live => HoldsFrom(1) = 0
    /\ (objs[1].live /\ \A t \in Threads : thr[t].pc = "idle") =>
          objs[1].n_ref = HoldsFrom(1)
\* the fields whose getters derive their value
DerivedFields == DOMAIN MemoOf \cup {"OWNER_UID"}

QIndex(src) == CHOOSE k \in 1..Len(last.q) : last.q[k] = src

AskedIndex(src) == CHOOSE k \in 1..Len(LaterAsked) : LaterAsked[k].src = src

\* bus_creds_add_more() has queried the source and it has failed with one of
\* the errors
FailedWith(src, errs) ==
    /\ last.op = "add_more"
    /\ \E k \in 1..Len(last.q) : last.q[k] = src
    /\ last.e[src].r \in errs

\* the call went on after the source: it queried the next source it had to
\* query, or returned 0 when there was none
WentOn(src) ==
    IF AskedIndex(src) = Len(LaterAsked)
    THEN last.r = 0 /\ QIndex(src) = Len(last.q)
    ELSE /\ QIndex(src) < Len(last.q)
         /\ last.q[QIndex(src) + 1] = LaterAsked[AskedIndex(src) + 1].src

\* the call stopped at the source and returned r
StoppedWith(src, r) == last.r = r /\ QIndex(src) = Len(last.q)

\* C17 as claimed: a fetch of the missing command line that fails with
\* EPERM, EACCES or ENOENT makes bus_creds_add_more() return -ESRCH, any
\* other failure is returned as it is, and the CMDLINE bit stays unset.  The
\* code does not do this for EPERM and EACCES: it skips the command line.
C17_CmdlineClassification ==
    FailedWith("cmdline", {0 - ENOENT, 0 - EPERM, 0 - EACCES, 0 - ENOMEM}) =>
        /\ "CMDLINE" \notin objs[last.c].mask
        /\ IF last.e.cmdline.r \in {0 - ENOENT} \cup PermissionErrors
           THEN StoppedWith("cmdline", 0 - ESRCH)
           ELSE StoppedWith("cmdline", last.e.cmdline.r)

\* C17, amended: a fetch of the missing command line that fails with ENOENT
\* makes bus_creds_add_more() return -ESRCH; one that fails with EPERM or
\* EACCES is skipped and the call goes on; any other failure is returned
\* as it is; in each case the CMDLINE bit stays unset.
C17_CmdlineSkipsDenied ==
    FailedWith("cmdline", {0 - ENOENT, 0 - EPERM, 0 - EACCES, 0 - ENOMEM}) =>
        /\ "CMDLINE" \notin objs[last.c].mask
        /\ IF last.e.cmdline.r = 0 - ENOENT THEN StoppedWith("cmdline", 0 - ESRCH)
           ELSE IF last.e.cmdline.r \in PermissionErrors THEN WentOn("cmdline")
           ELSE StoppedWith("cmdline", last.e.cmdline.r)

\* C17's case: the command line was denied; the call went on to the audit
\* login uid, stored it and returned 0.
C17_Witness ==
    /\ FailedWith("cmdline", PermissionErrors)
    /\ last.r = 0
    /\ "CMDLINE" \in last.mask \ objs[last.c].mask
    /\ "AUDIT_LOGIN_UID" \in objs[last.c].mask \ last.premask

\* C18 as claimed: a fetch of the label, the process name, the executable
\* path or the thread name that fails with ENOENT, EPERM or EACCES leaves
\* the field's bit unset and the call goes on.  The code does not skip
\* ENOENT for the process name, the executable path and the thread name.
C18_IndependentFetchesSkip ==
    \A src \in {"label", "comm", "exe", "tid_comm"} :
        FailedWith(src, {0 - ENOENT} \cup PermissionErrors) =>
            /\ SourceBits(src) \cap objs[last.c].mask = {}
            /\ WentOn(src)

\* C18, amended: a fetch of the label that fails with ENOENT, EPERM or
\* EACCES, and a fetch of the process name, the executable path or the
\* thread name that fails with EPERM or EACCES, leaves the field's bit unset
\* and the call goes on; ENOENT from the process name or the executable path
\* is returned as it is, ENOENT from the thread name makes the call return
\* -ESRCH, and the bit stays unset.
C18_FetchesSkipDenied ==
    \A src \in {"label", "comm", "exe", "tid_comm"} :
        FailedWith(src, {0 - ENOENT} \cup PermissionErrors) =>
            /\ SourceBits(src) \cap objs[last.c].mask = {}
            /\ IF src = "label" \/ last.e[src].r \in PermissionErrors THEN WentOn(src)
               ELSE IF src = "tid_comm" THEN StoppedWith(src, 0 - ESRCH)
               ELSE StoppedWith(src, 0 - ENOENT)

\* C18's case: the label was not found; the call went on to the audit
\* session id, stored it and returned 0.
C18_Witness ==
    /\ FailedWith("label", {0 - ENOENT})
    /\ last.r = 0
    /\ "SELINUX_CONTEXT" \in last.mask \ objs[last.c].mask
    /\ "AUDIT_SESSION_ID" \in objs[last.c].mask \ last.premask
\* every live set with a bit of the group path family holds a raw group path
\* and a root prefix
FamilyComplete ==
    \A i \in 1..Len(objs) :
        (objs[i].live /\ objs[i].mask \cap CgroupBits # {}) =>
            /\ objs[i].cgroup # 0 /\ heap[objs[i].cgroup].live
            /\ objs[i].cgroup_root # 0 /\ heap[objs[i].cgroup_root].live

\* C19: when bus_creds_add_more() misses a member of the group path family
\* and no other field, it fetches the raw group path, and in every call it
\* fetches it at most once.  When that fetch fails with EPERM or EACCES no
\* bit of the family is gained and the call goes on; when it and the fetch
\* of the root succeed, every requested member of the family has its bit.
\* In every state every live set with a bit of the family holds both a raw
\* group path and a root prefix.
C19_GroupPathFamily ==
    /\ FamilyComplete
    /\ last.op = "add_more" =>
          /\ Cardinality({k \in 1..Len(last.q) : last.q[k] = "cgroup"}) <= 1
          /\ (/\ AUGMENT \in last.mask /\ HadPid
              /\ (last.mask \ last.premask) \cap CgroupBits # {}
              /\ (last.mask \ last.premask) \subseteq CgroupBits \cup {AUGMENT}) =>
                Head(last.q) = "cgroup"
          /\ FailedWith("cgroup", PermissionErrors) =>
                /\ objs[last.c].mask \cap CgroupBits = last.premask \cap CgroupBits
                /\ WentOn("cgroup")
          /\ (FailedWith("cgroup", {0}) /\ last.e.cgroup_root.r = 0) =>
                /\ (last.mask \cap CgroupBits) \subseteq objs[last.c].mask
                /\ Deref(heap, objs[last.c].cgroup) = last.e.cgroup.v
                /\ Deref(heap, objs[last.c].cgroup_root) = last.e.cgroup_root.v

\* C19's case: the unit and the raw group path were missing; one fetch of
\* the raw path and one of the root gave the set both bits.
C19_Witness ==
    /\ last.op = "add_more"
    /\ last.r = 0
    /\ last.q = <<"cgroup", "cgroup_root">>
    /\ {"CGROUP", "UNIT"} \subseteq objs[last.c].mask \ last.premask
    /\ objs[last.c].cgroup # 0
    /\ objs[last.c].cgroup_root # 0
\* the text that encodes a byte vector: the bytes from the last to the
\* first, each as two hex digits, high digit first
RECURSIVE EncodeCaps(_)
EncodeCaps(bytes) ==
    IF bytes = <<>> THEN <<>>
    ELSE <<bytes[Len(bytes)] \div 16, bytes[Len(bytes)] % 16>>
         \o EncodeCaps(SubSeq(bytes, 1, Len(bytes) - 1))

\* the byte that the hex pair number j (from 0) of text s denotes
PairByte(s, j) == 16 * s[2 * j + 1] + s[2 * j + 2]

\* a text that parse_caps() has to reject: odd length or a character that
\* is no hex digit
BadCapText(s) == Len(s) % 2 # 0 \/ \E k \in 1..Len(s) : s[k] \notin 0..15

\* what C20 says of the decoding of text s, leading blanks skipped, that
\* returned r and left the bytes of its category as given
DecodedAs(s, r, bytes) ==
    /\ r = (IF BadCapText(s) THEN 0 - EINVAL ELSE 0)
    /\ r = 0 =>
          /\ Len(bytes) = Len(s) \div 2
          /\ \A k \in 0..(Len(s) \div 2 - 1) :
                bytes[k + 1] = PairByte(s, Len(s) \div 2 - 1 - k)
          /\ EncodeCaps(bytes) = s

\* C20: parse_caps() of a text of n hex pairs, leading blanks skipped, stores
\* at offset k of its category the byte of pair n-1-k; encoding the
\* category's bytes from the last to the first gives the text back; the
\* call returns -EINVAL exactly when the length is odd or a character is no
\* hex digit, and on success no store falls outside the vector and the
\* field's bit is set.
C20_DecodeRoundTrip ==
    last.op = "parse_caps" =>
        /\ DecodedAs(SkipBlanks(last.q), last.r,
                     CapBytes(heap, objs[1], CapOffsetOf[last.field]))
        /\ ~last.oob
        /\ (last.field \in objs[1].mask) = (last.r = 0)

\* C20's case: after another category, a text of two different hex pairs
\* with a leading blank was decoded; the second pair is the first byte.
C20_Witness ==
    /\ last.op = "parse_caps"
    /\ last.r = 0
    /\ last.premask # {}
    /\ last.q = <<Blank, 1, 10, 10, 1>>
    /\ CapBytes(heap, objs[1], CapOffsetOf[last.field]) = <<161, 26>>

\* what the query of capability cap of field f has to answer for object c:
\* 0 beyond the width of a category, else bit cap mod 8 of the byte at
\* offset cap div 8 of the category
CapAnswer(h, c, f, cap) ==
    IF cap >= 8 * (c.capability_size \div 4) THEN 0
    ELSE IF (CapBytes(h, c, CapOffsetOf[f])[cap \div 8 + 1] \div (2 ^ (cap % 8))) % 2 = 1
         THEN 1 ELSE 0

\* the query of capability cap of field f on object c
CapQuery(h, c, f, cap) == Getter(h, c, f, [shift |-> 0, get |-> 0], cap).r

\* C21: for a set whose category bit is set and a capability number
\* cap >= 0, the query answers 1 exactly when bit cap mod 8 of the byte at
\* offset cap div 8 of that category is 1, and 0, not an error, for every
\* cap at or beyond 8 times the bytes of a category; a category decoded from
\* sixteen hex digits 0 answers 0 for all 64 capability numbers.
C21_CapabilityQuery ==
    /\ \A f \in objs[1].mask \cap CapBits :
          \A cap \in 0..(2 * objs[1].capability_size + 1) :
              CapQuery(heap, objs[1], f, cap) = CapAnswer(heap, objs[1], f, cap)
    /\ last.op = "has_cap" =>
          /\ last.field \in objs[1].mask
          /\ last.r = CapAnswer(heap, objs[1], last.field, last.pid)
          /\ last.r \in {0, 1}
    /\ (last.op = "parse_caps" /\ last.r = 0 /\ last.q = ZeroCapText) =>
          \A cap \in 0..63 : CapQuery(heap, objs[1], last.field, cap) = 0

\* C21's case: two categories were decoded from texts of two hex pairs, and
\* the query of capability MaxCap + 1 of one of them, bit 1 of its second
\* byte, answered 1 while the same query of the other answers 0.
C21_Witness ==
    /\ last.op = "has_cap"
    /\ last.pid = MaxCap + 1
    /\ last.r = 1
    /\ objs[1].capability_size = 8
    /\ \E f \in (objs[1].mask \cap CapBits) \ {last.field} :
          CapQuery(heap, objs[1], f, last.pid) = 0

\* a step of sd_bus_creds_new_from_pid() with valid arguments
NewFromPidStep ==
    /\ calls' = calls + 1
    /\ last'.op = "new_from_pid"
    /\ last'.pid >= 0
    /\ last'.mask \subseteq Fields

\* what the augmentation of the new set returns for the inputs of the call:
\* bus_creds_add_more() on a new set, with the process id asked about
AugmentOfNew(pid, mask, e, oom) ==
    bus_creds_add_more([Run([Machine EXCEPT !.objs = Append(@, bus_creds_new)],
                            Len(objs) + 1, oom) EXCEPT !.na = 1],
                       mask \cup {AUGMENT}, IF pid = 0 THEN SelfPid ELSE pid, 0, e).r

\* C22: with valid arguments sd_bus_creds_new_from_pid() returns what the
\* augmentation returned when that is a failure, else -ESRCH when the
\* process is not alive once fetching is done, else 0.  On success it
\* stores a handle to a new owned set with n_ref 1 whose PID bit is set and
\* whose pid is the one asked about (the caller's own for 0).  On failure
\* it stores no handle, and the new set is released: the heap is as before
\* and no live object was added.
C22_NewFromPid ==
    [][NewFromPidStep =>
          /\ last'.oom = 1 => (last'.r = 0 - ENOMEM /\ objs' = objs)
          /\ last'.oom # 1 =>
                last'.r = (IF AugmentOfNew(last'.pid, last'.mask, last'.e, last'.oom) < 0
                           THEN AugmentOfNew(last'.pid, last'.mask, last'.e, last'.oom)
                           ELSE IF last'.tid # 1 THEN 0 - ESRCH ELSE 0)
          /\ last'.r = 0 =>
                /\ last'.ret = Len(objs) + 1
                /\ Len(objs') = Len(objs) + 1
                /\ objs'[last'.ret].live
                /\ objs'[last'.ret].allocated
                /\ objs'[last'.ret].n_ref = 1
                /\ held'[last'.ret] = 1
                /\ "PID" \in objs'[last'.ret].mask
                /\ objs'[last'.ret].pid = (IF last'.pid = 0 THEN SelfPid ELSE last'.pid)
          /\ last'.r < 0 =>
                /\ last'.ret = 0
                /\ heap' = heap
                /\ msg' = msg
                /\ \A k \in 1..Len(objs') : k > Len(objs) => (~objs'[k].live /\ held'[k] = 0)
                /\ \A k \in 1..Len(objs) : objs'[k] = objs[k] /\ held'[k] = held[k]]_vars

\* C22's case: the caller asked about itself with process id 0; the call
\* queried the OS and returned a new owned set with one reference that
\* holds the caller's process id and a fetched field.
C22_Witness ==
    /\ last.op = "new_from_pid"
    /\ last.pid = 0
    /\ last.r = 0
    /\ last.q # <<>>
    /\ objs[last.ret].allocated
    /\ objs[last.ret].n_ref = 1
    /\ objs[last.ret].pid = SelfPid
    /\ objs[last.ret].mask \ {"PID"} # {}

\* C23: in every reachable state, for every live set, PID bit set implies
\* pid > 0, TID bit set implies tid > 0 and PID_STARTTIME bit set implies a
\* stored start time > 0, so the assertions of the three getters never
\* fail.  The code violates it: when get_starttime_of_pid() reports 0 clock
\* ticks, line 838 stores 0 and line 839 sets the bit.
C23_GetterAssertions ==
    \A i \in 1..Len(objs) :
        objs[i].live =>
            /\ "PID" \in objs[i].mask => objs[i].pid > 0
            /\ "TID" \in objs[i].mask => objs[i].tid > 0
            /\ "PID_STARTTIME" \in objs[i].mask => objs[i].pid_starttime > 0
            /\ sd_bus_creds_get_pid(objs[i]).r # Aborted
            /\ sd_bus_creds_get_tid(objs[i]).r # Aborted
            /\ sd_bus_creds_get_pid_starttime(objs[i]).r # Aborted

\* the lines of the status record with a key, when the record was opened
LinesOf(e, key) ==
    IF e.status.open # 0 THEN {}
    ELSE {e.status.lines[k] : k \in {j \in 1..Len(e.status.lines) :
                                          e.status.lines[j].key = key}}

\* the key of the line that supplies a capability field
CapKeyOf ==
    [EFFECTIVE_CAPS |-> "CapEff:", PERMITTED_CAPS |-> "CapPrm:",
     INHERITABLE_CAPS |-> "CapInh:", BOUNDING_CAPS |-> "CapBnd:"]

\* the source of field f has answered with a well-formed value in
\* environment e, and object c holds that value in full
Obtained(h, c, f, e) ==
    IF f \in UidBits \cup GidBits
    THEN \E line \in LinesOf(e, IF f \in UidBits THEN "Uid:" ELSE "Gid:") :
            /\ WellFormed(line)
            /\ \E n \in 1..4 : /\ LineMembers(line.key)[n].bit = f
                                /\ c[LineMembers(line.key)[n].m] = line.toks[n]
    ELSE IF f = "SUPPLEMENTARY_GIDS"
    THEN \E line \in LinesOf(e, "Groups:") :
            /\ WellFormed(line)
            /\ c.n_supplementary_gids = Len(line.toks)
            /\ Deref(h, c.supplementary_gids) = line.toks
    ELSE IF f \in CapBits
    THEN \E line \in LinesOf(e, CapKeyOf[f]) :
            /\ ~BadCapText(SkipBlanks(line.toks))
            /\ c.capability # 0
            /\ DecodedAs(SkipBlanks(line.toks), 0, CapBytes(h, c, CapOffsetOf[f]))
    ELSE IF f = "PID_STARTTIME"
    THEN /\ e.starttime.r >= 0
         /\ c.pid_starttime = (e.starttime.v * USEC_PER_SEC) \div CLK_TCK
    ELSE IF f \in {"SELINUX_CONTEXT", "COMM", "EXE", "TID_COMM"}
    THEN /\ e[StringOf[f]].r >= 0
         /\ c[StringOf[f]] # 0
         /\ Deref(h, c[StringOf[f]]) = e[StringOf[f]].v
    ELSE IF f = "CMDLINE"
    THEN /\ e.cmdline.r >= 0
         /\ e.cmdline.v # <<>>
         /\ c.cmdline # 0
         /\ Deref(h, c.cmdline) = e.cmdline.v
         /\ c.cmdline_size = Len(e.cmdline.v)
    ELSE IF f \in CgroupBits
    THEN /\ e.cgroup.r >= 0 /\ e.cgroup_root.r >= 0
         /\ c.cgroup # 0 /\ Deref(h, c.cgroup) = e.cgroup.v
         /\ c.cgroup_root # 0 /\ Deref(h, c.cgroup_root) = e.cgroup_root.v
    ELSE IF f = "AUDIT_SESSION_ID"
    THEN e.audit_session.r >= 0 /\ c.audit_session_id = e.audit_session.v
    ELSE IF f = "AUDIT_LOGIN_UID"
    THEN e.audit_login.r >= 0 /\ c.audit_login_uid = e.audit_login.v
    ELSE FALSE

\* C24: bus_creds_add_more() clears no bit of the mask.  Every bit it sets
\* is PID or TID, set with the id passed to the call, or a bit of the
\* target mask that was missing and whose source answered in this call with
\* a well-formed value that the set now holds in full.  When the call has a
\* process id to work with, a positive id passed to it is recorded with its
\* bit even when that bit was not requested.
C24_MaskOnlyObtained ==
    last.op = "add_more" =>
        /\ last.premask \subseteq objs[last.c].mask
        /\ \A f \in objs[last.c].mask \ last.premask :
              \/ f = "PID" /\ last.pid > 0 /\ objs[last.c].pid = last.pid
              \/ f = "TID" /\ last.tid > 0 /\ objs[last.c].tid = last.tid
              \/ /\ f \in last.mask
                 /\ AUGMENT \in last.mask
                 /\ Obtained(heap, objs[last.c], f, last.e)
        /\ (AUGMENT \in last.mask /\ HadPid) =>
              /\ last.pid > 0 => ("PID" \in objs[last.c].mask /\ objs[last.c].pid = last.pid)
              /\ last.tid > 0 => ("TID" \in objs[last.c].mask /\ objs[last.c].tid = last.tid)

\* C24's case: the call gained the saved uid from the status record and the
\* thread id that was passed but not requested, and did not gain the
\* requested process name, which was denied.
C24_Witness ==
    /\ last.op = "add_more"
    /\ last.r = 0
    /\ "SUID" \in objs[last.c].mask \ last.premask
    /\ "TID" \in objs[last.c].mask \ (last.premask \cup last.mask)
    /\ "COMM" \in last.mask \ objs[last.c].mask
    /\ last.e.comm.r \in PermissionErrors

\* the failure a line of the status record makes the call return, 0 for none
LineFailure(line, missing) ==
    IF LineBits(line.key) \cap missing # {}
    THEN (IF WellFormed(line) THEN 0 ELSE 0 - EIO)
    ELSE IF \E f \in CapBits \cap missing : CapKeyOf[f] = line.key
    THEN (IF BadCapText(SkipBlanks(line.toks)) THEN 0 - EINVAL ELSE 0)
    ELSE 0

\* the lines of a record that make the call fail
BadLines(lines, missing) ==
    {k \in 1..Len(lines) : LineFailure(lines[k], missing) # 0}

\* the errors a source may answer with that make its step skip the field
SkipErrors(src) ==
    CASE src = "label" -> {0 - ENOENT, 0 - EINVAL} \cup PermissionErrors
      [] src \in {"audit_session", "audit_login"} ->
            {0 - ENOTSUP, 0 - ENXIO, 0 - ENOENT} \cup PermissionErrors
      [] src = "cgroup_root" -> {}
      [] OTHER -> PermissionErrors

\* the hard failure the step of a source produces in environment e, 0 when
\* it produces none
StepFailure(src, e, missing) ==
    IF src = "status"
    THEN IF e.status.open = ENOENT THEN 0 - ESRCH
         ELSE IF e.status.open \in {EPERM, EACCES} THEN 0
         ELSE IF e.status.open # 0 THEN 0 - e.status.open
         ELSE IF BadLines(e.status.lines, missing) # {}
         THEN LineFailure(e.status.lines[MinOf(BadLines(e.status.lines, missing))], missing)
         ELSE 0 - e.status.rderr
    ELSE IF e[src].r >= 0 \/ e[src].r \in SkipErrors(src) THEN 0
    ELSE IF src \in {"cmdline", "tid_comm"} /\ e[src].r = 0 - ENOENT THEN 0 - ESRCH
    ELSE e[src].r

\* the sources the call described by last has to query when no step fails,
\* in the fixed order of the steps; the root prefix follows a raw group path
\* that was given
RECURSIVE PlanFrom(_)
PlanFrom(k) ==
    IF k > Len(LaterAsked) THEN <<>>
    ELSE <<LaterAsked[k].src>>
         \o (IF LaterAsked[k].src = "cgroup" /\ last.e.cgroup.r >= 0
             THEN <<"cgroup_root">> ELSE <<>>)
         \o PlanFrom(k + 1)

Plan ==
    (IF (last.mask \ last.premask) \cap StatusBits # {} THEN <<"status">> ELSE <<>>)
    \o PlanFrom(1)

\* the places of the plan whose step produces a hard failure
Failing ==
    {k \in 1..Len(Plan) : StepFailure(Plan[k], last.e, last.mask \ last.premask) # 0}

\* the bits the call described by last has gained
Gained == objs[last.c].mask \ last.premask

\* C25: the steps of bus_creds_add_more() query their sources in the fixed
\* order status record, start time, label, process name, executable path,
\* command line, thread name, group path (and root), audit session id,
\* audit login uid.  When a step produces a hard failure the call returns
\* that error, no later step queries its source, and no bit of the failing
\* step (lines of the record parsed before the failure apart) or of a
\* later step is gained.  When no step produces a hard failure every step
\* has queried its source and the call returns 0, skipped steps included.
C25_FirstHardFailureAborts ==
    (last.op = "add_more" /\ AUGMENT \in last.mask /\ HadPid) =>
        /\ Len(last.q) <= Len(Plan)
        /\ last.q = SubSeq(Plan, 1, Len(last.q))
        /\ last.oom = 0 =>
              IF Failing = {}
              THEN last.r = 0 /\ last.q = Plan
              ELSE /\ last.r = StepFailure(Plan[MinOf(Failing)], last.e,
                                           last.mask \ last.premask)
                   /\ last.q = SubSeq(Plan, 1, MinOf(Failing))
                   /\ \A k \in MinOf(Failing)..Len(Plan) :
                         Plan[k] # "status" => SourceBits(Plan[k]) \cap Gained = {}
                   /\ (Plan[MinOf(Failing)] = "status" /\ last.e.status.open = 0) =>
                         \A j \in 1..Len(last.e.status.lines) :
                             (/\ BadLines(last.e.status.lines, last.mask \ last.premask) # {}
                              /\ j >= MinOf(BadLines(last.e.status.lines,
                                                     last.mask \ last.premask))) =>
                                 /\ LineBits(last.e.status.lines[j].key) \cap Gained = {}
                                 /\ \A f \in CapBits \cap Gained :
                                       CapKeyOf[f] # last.e.status.lines[j].key
                   /\ (Plan[MinOf(Failing)] = "status" /\ last.e.status.open # 0) =>
                         StatusBits \cap Gained = {}

\* C25's case: the start time was stored, then the fetch of the process
\* name failed hard with ENOENT; the call returned it and queried nothing
\* after.
C25_Witness ==
    /\ last.op = "add_more"
    /\ last.q = <<"starttime", "comm">>
    /\ last.e.comm.r = 0 - ENOENT
    /\ last.r = 0 - ENOENT
    /\ "PID_STARTTIME" \in Gained
    /\ "COMM" \notin objs[last.c].mask

\* C26: during bus_creds_add_more(), in a call of its own, in extend or in
\* sd_bus_creds_new_from_pid(), a source is queried only if a field it
\* supplies is in the target mask and not in the mask the set had; a source
\* whose requested fields are all present is not queried; and the thread
\* name is queried only when a positive thread id is known.
C26_OnlyGapFetched ==
    last.op \in {"add_more", "extend", "new_from_pid"} =>
        \A k \in 1..Len(last.q) :
            /\ SourceBits(last.q[k]) \cap (last.mask \ last.premask) # {}
            /\ last.q[k] = "tid_comm" => (HadTid /\ last.op # "new_from_pid")

\* C26's case: extend was asked for the start time, which the original had,
\* and the process name, which it had not: only the process name was
\* fetched.
C26_Witness ==
    /\ last.op = "extend"
    /\ last.r = 0
    /\ "PID_STARTTIME" \in last.premask \cap last.mask
    /\ "COMM" \in last.mask \ last.premask
    /\ last.q = <<"comm">>
    /\ {"PID_STARTTIME", "COMM"} \subseteq objs[last.ret].mask

\* C27: once the vector is sized, with S bytes for each category, decoding
\* another category from a text of any even length stores no byte outside
\* the vector and none outside the category's own S bytes: the bytes of
\* the categories the set had stay as they were, and a decoded category
\* holds, and the query reads, the bytes of its text.  The code violates
\* it: parse_caps() computes the place of a byte from the length of the
\* text it decodes (lines 629-633 and 651), not from the size the vector
\* has.
C27_CapsInBounds ==
    [][last'.op = "parse_caps" =>
          /\ ~last'.oob
          /\ last'.r # Aborted
          /\ \A f \in objs[1].mask \cap CapBits :
                CapBytes(heap', objs'[1], CapOffsetOf[f])
                  = CapBytes(heap, objs[1], CapOffsetOf[f])
          /\ last'.r = 0 =>
                \A cap \in 0..(4 * Len(SkipBlanks(last'.q)) - 1) :
                    CapQuery(heap', objs'[1], last'.field, cap)
                      = (IF (PairByte(SkipBlanks(last'.q),
                                      Len(SkipBlanks(last'.q)) \div 2 - 1 - cap \div 8)
                               \div (2 ^ (cap % 8))) % 2 = 1 THEN 1 ELSE 0)]_vars

\* thread t has completed a get of field f that returned 0
Got(t, f) == thr[t].pc = "idle" /\ thr[t].f = f /\ thr[t].r = 0

\* C28: with threads calling the getters of the derived fields of one set
\* without serialization, the memoized pointer of a field is stored once:
\* a pointer that was stored is not replaced or cleared, no derived value
\* is left in the heap without the set pointing to it, and the calls for
\* one field that returned 0 have returned the same pointer, the memoized
\* one.  The code violates it: the test of the pointer (lines 369, 494) and
\* the store of the derived value (lines 376, 495) are separate steps
\* without a lock.
C28_PublishOnce ==
    /\ [](/\ \A b \in BufIds : heap[b].live => b \in BuffersOf(objs[1])
          /\ \A f \in pool, t1 \in Threads :
                Got(t1, f) =>
                    /\ thr[t1].reg # 0
                    /\ thr[t1].reg = objs[1][MemoOf[f]]
                    /\ \A t2 \in Threads : Got(t2, f) => thr[t2].reg = thr[t1].reg)
    /\ [][\A f \in pool :
              objs[1][MemoOf[f]] # 0 => objs'[1][MemoOf[f]] = objs[1][MemoOf[f]]]_vars

=============================================================================
